---- MODULE Spec2Model ----
(***************************************************************************)
(* Brass Birmingham simulation (src/main.py): the game-state transition    *)
(* engine, the played-industry state machine, the player account and the   *)
(* resource ledger, modelled as a state machine over a heap of Game_State  *)
(* objects.                                                                *)
(*                                                                         *)
(* Objects are modelled by position: the heap `nodes` is the sequence of   *)
(* Game_State objects that callers hold; a Player object is named by the   *)
(* pair <<node, index>> of the Game_State that owns it.  A Played_Industry *)
(* keeps in its `player` field the name of the Player object it points to, *)
(* so that what copy.copy shares and what it duplicates is explicit.       *)
(***************************************************************************)
EXTENDS Integers, Sequences, FiniteSets, TLC

VARIABLES
    nodes,   \* heap of Game_State objects held by callers; nodes[1] is Game_State()
    game,    \* the module-level variable `game` (main.py:874): an index into nodes
    pc,      \* "idle" | "returned" (take_action_copy has returned) | "raised"
    last,    \* the last take_action_copy call: its arguments and what it returned
    mutations, \* number of calls so far that changed a Game_State the caller held
    unit     \* state of the component-level specifications (unused by Spec)

vars == <<nodes, game, pc, last, mutations, unit>>

-----------------------------------------------------------------------------
(* Bounds of the model *)

\* Largest number of Game_State objects kept on the heap (root included).
MaxNodes == 2

\* Largest number of calls explored that change an object the caller already held.
MaxMutations == 1

\* Played industries on the board when the tile operations are exercised alone
MaxTiles == 2

\* Players at the table, and card plays followed, when the turn order is exercised
MaxPlayers == 3
MaxCardPlay == 6

\* Turns of the loop of complete_game followed
MaxPlays == 4

-----------------------------------------------------------------------------
(* Industry catalog: a sample of industry_data.csv rows (the file itself is *)
(* data outside the sources), in the columns Industry_Properties reads.     *)

Families == {"Crate", "Shed", "Pottery", "Beer", "Iron", "Coal"}

Resources == {"Coal", "Iron", "Beer"}

Row(ind, typ, seq, money, coal, iron, age, beer, devr, cp, ip, bpc, bpr, pts, inc) ==
    [industry |-> ind, industry_type |-> typ, sequence |-> seq,
     money_cost |-> money, coal_cost |-> coal, iron_cost |-> iron,
     age_restriction |-> age, beer_cost |-> beer,
     development_restriction |-> devr,
     coal_production |-> cp, iron_production |-> ip,
     beer_production_canal |-> bpc, beer_production_rail |-> bpr,
     points |-> pts, income_levels |-> inc]

industry_data ==
    [n \in {"Coal0", "Coal1", "Iron0", "Beer0", "Crate0", "Pottery0", "Shed0"} |->
       CASE n = "Coal0"    -> Row("Coal", "Resource", 0, 5, 0, 0, "canal", 0, FALSE, 1, 0, 0, 0, 1, 4)
         [] n = "Coal1"    -> Row("Coal", "Resource", 1, 7, 1, 1, "", 0, FALSE, 3, 0, 0, 0, 2, 7)
         [] n = "Iron0"    -> Row("Iron", "Resource", 0, 5, 1, 0, "canal", 0, FALSE, 0, 3, 0, 0, 3, 3)
         [] n = "Beer0"    -> Row("Beer", "Resource", 0, 5, 0, 1, "canal", 0, FALSE, 0, 0, 1, 2, 4, 4)
         [] n = "Crate0"   -> Row("Crate", "Manufactured", 0, 20, 1, 1, "", 1, FALSE, 0, 0, 0, 0, 3, 5)
         [] n = "Pottery0" -> Row("Pottery", "Manufactured", 0, 17, 0, 1, "", 0, TRUE, 0, 0, 0, 0, 10, 5)
         [] n = "Shed0"    -> Row("Shed", "Manufactured", 0, 12, 0, 0, "rail", 1, FALSE, 0, 0, 0, 0, 5, 5)]

TileNames == DOMAIN industry_data

\* Game_Properties.industry_dict: name -> Industry_Properties
industry_dict == industry_data

\* Game_Properties.industry_layout: family -> its tiles by sequence.  The source
\* preallocates the full table's sizes; here the sizes are those of the sample.
industry_layout ==
    [f \in Families |->
       LET n == Cardinality({t \in TileNames : industry_dict[t].industry = f})
       IN  [i \in 1..n |->
              CHOOSE t \in TileNames :
                  industry_dict[t].industry = f /\ industry_dict[t].sequence = i - 1]]

RECURSIVE Repeat(_, _)
Repeat(x, n) == IF n <= 0 THEN <<>> ELSE <<x>> \o Repeat(x, n - 1)

\* Industry_Properties.cost_list: sorted(["Coal"]*coal_cost + ["Iron"]*iron_cost)
cost_list(name) ==
    Repeat("Coal", industry_dict[name].coal_cost) \o Repeat("Iron", industry_dict[name].iron_cost)

coal_market_cost == <<1, 1, 2, 2, 3, 3, 4, 4, 5, 5, 6, 6, 7, 7, 8>>
iron_market_cost == <<1, 1, 2, 2, 3, 3, 4, 4, 5, 5, 6>>

starting_money == 36


-----------------------------------------------------------------------------
(* Values *)

\* previous_action = None
NoAction ==
    [card_play |-> -1, player_id |-> -1, used_card |-> "", main_action |-> "None",
     arguments |-> <<>>]

\* parent = None
NoParent == 0

\* Player.__init__
Player(player_id) ==
    [player_id |-> player_id, money |-> starting_money, points |-> 0,
     income_level |-> 0, industry_next |-> [f \in Families |-> 0]]

\* Game_State.__init__
Game_State ==
    [players |-> <<Player(0)>>,
     age |-> "canal", round |-> 0, card_play |-> 0,
     active_player_index |-> 0, active_player_card |-> 1,
     coal_market_last_filled |-> 1, iron_market_last_filled |-> 2,
     played_industries |-> <<>>, played_links |-> <<>>,
     parent |-> NoParent, previous_action |-> NoAction]

\* Played_Industry.__init__ without the production (the tile starts with nothing
\* to give)
Played_Industry_no_production(player, name, age) ==
    [player |-> player, name |-> name, flipped |-> FALSE, resource_remaining |-> 0]

\* Played_Industry.__init__: `player` is a reference to a Player object
Played_Industry(player, name, age) ==
    [player |-> player, name |-> name, flipped |-> FALSE,
     resource_remaining |->
        industry_dict[name].coal_production + industry_dict[name].iron_production
        + (IF age = "canal" THEN industry_dict[name].beer_production_canal
                            ELSE industry_dict[name].beer_production_rail)]

\* Played_Industry.copy: copy.copy keeps the reference held in `player`
Played_Industry_copy(industry) == industry

\* Player.copy: an independent Player object (hand and discard stay empty)
Player_copy(player) == player

\* The list comprehensions of Game_State.copy, element by element
RECURSIVE players_copy(_)
players_copy(players) ==
    IF players = <<>> THEN <<>>
    ELSE <<Player_copy(Head(players))>> \o players_copy(Tail(players))

RECURSIVE played_industries_copy(_)
played_industries_copy(played_industries) ==
    IF played_industries = <<>> THEN <<>>
    ELSE <<Played_Industry_copy(Head(played_industries))>>
         \o played_industries_copy(Tail(played_industries))

\* Game_State.copy without its lineage lines (parent and previous_action stay
\* those of the state copied)
copy_without_lineage(h, p) ==
    [h[p] EXCEPT
        !.players = players_copy(h[p].players),
        !.played_industries = played_industries_copy(h[p].played_industries)]

\* Game_State.copy of nodes[p]
copy(h, p) ==
    [h[p] EXCEPT
        !.players = players_copy(h[p].players),
        !.played_industries = played_industries_copy(h[p].played_industries),
        !.parent = p,
        !.previous_action = NoAction]

-----------------------------------------------------------------------------
(* Execution context of one command: the heap h (the caller's nodes plus the *)
(* working copy at its end), the value r returned by the last call ("" for   *)
(* None or a non-string), whether an exception is propagating, and the       *)
(* record of the spend_resources calls made so far.                          *)

Context(h) == [h |-> h, r |-> "", raised |-> FALSE, spends |-> <<>>]

\* Action_Controller.test: return the string in test mode, raise in perform mode
test(c, string, test_mode) == [c EXCEPT !.r = string, !.raised = ~test_mode]

\* `if (r := <call>): return r` followed by the statements F: c is the context
\* the call left, F runs only if the call returned no failure
Then(c, F(_)) == IF c.r # "" THEN c ELSE F(c)

\* `<call>` as a statement, its returned value not looked at, followed by F
Ignoring(c, F(_)) == IF c.raised THEN c ELSE F([c EXCEPT !.r = ""])

\* The Player object a reference points to
Deref(c, ref) == c.h[ref[1]].players[ref[2]]

\* Player.award_points (returns None)
award_points(c, ref, points) ==
    LET v == Deref(c, ref).points + points
    IN  [c EXCEPT !.h[ref[1]].players[ref[2]].points = IF v < 0 THEN 0 ELSE v,
                  !.r = ""]

\* Player.award_income_levels
award_income_levels(c, ref, income_level, test_mode) ==
    LET v  == Deref(c, ref).income_level + income_level
        c1 == [c EXCEPT !.h[ref[1]].players[ref[2]].income_level = v, !.r = ""]
    IN  IF v < 0 THEN test(c1, "negative income level", test_mode)
        ELSE IF v > 99 THEN [c1 EXCEPT !.h[ref[1]].players[ref[2]].income_level = 99]
        ELSE c1

\* delta_money without its check (the new balance is accepted whatever its sign)
delta_money_unchecked(c, ref, delta, test_mode) ==
    [c EXCEPT !.h[ref[1]].players[ref[2]].money = Deref(c, ref).money + delta, !.r = ""]

\* Player.delta_money
delta_money(c, ref, delta, test_mode) ==
    LET v  == Deref(c, ref).money + delta
        c1 == [c EXCEPT !.h[ref[1]].players[ref[2]].money = v, !.r = ""]
    IN  IF v < 0 THEN test(c1, "negative money", test_mode) ELSE c1

\* Player.loan
loan(c, ref, test_mode) ==
    Then(delta_money(c, ref, 30, test_mode),
         LAMBDA c1 : award_income_levels(c1, ref, -3, test_mode))

\* build_tile without its check of the sequence (any tile of the family is taken)
build_tile_any_sequence(c, ref, industry_name, test_mode) ==
    LET built_tile == industry_dict[industry_name]
        c1 == [c EXCEPT !.h[ref[1]].players[ref[2]].industry_next[built_tile.industry] = @ + 1]
    IN  delta_money(c1, ref, -1 * built_tile.money_cost, test_mode)

\* Player.build_tile: r = "" stands for the returned Industry_Properties
build_tile(c, ref, industry_name, test_mode) ==
    LET built_tile == industry_dict[industry_name]
    IN  IF built_tile.sequence # Deref(c, ref).industry_next[built_tile.industry]
        THEN test(c, "cannot build", test_mode)
        ELSE LET c1 == [c EXCEPT !.h[ref[1]].players[ref[2]].industry_next[built_tile.industry]
                                     = @ + 1]
             IN  delta_money(c1, ref, -1 * built_tile.money_cost, test_mode)

\* develop_tile with its two checks made before the index is advanced
develop_tile_checks_first(c, ref, industry_name, test_mode) ==
    LET built_tile == industry_dict[industry_name]
    IN  IF built_tile.sequence # Deref(c, ref).industry_next[built_tile.industry]
        THEN test(c, "cannot build", test_mode)
        ELSE IF built_tile.development_restriction
        THEN test(c, "cannot develop", test_mode)
        ELSE [c EXCEPT !.h[ref[1]].players[ref[2]].industry_next[built_tile.industry] = @ + 1,
                       !.r = ""]

\* Player.develop_tile
develop_tile(c, ref, industry_name, test_mode) ==
    LET built_tile == industry_dict[industry_name]
    IN  IF built_tile.sequence # Deref(c, ref).industry_next[built_tile.industry]
        THEN test(c, "cannot build", test_mode)
        ELSE LET c1 == [c EXCEPT !.h[ref[1]].players[ref[2]].industry_next[built_tile.industry]
                                     = @ + 1,
                                 !.r = ""]
             IN  IF built_tile.development_restriction
                 THEN test(c1, "cannot develop", test_mode)
                 ELSE c1

\* The flip of a played industry: flipped = True, then the two awards to
\* self.player (Played_Industry.spend_resource lines 410-414, sell lines 424-428)
flip_and_award(c, g, t, test_mode) ==
    LET industry == c.h[g].played_industries[t]
        c1 == [c EXCEPT !.h[g].played_industries[t].flipped = TRUE]
        c2 == award_points(c1, industry.player, industry_dict[industry.name].points)
    IN  award_income_levels(c2, industry.player,
                            industry_dict[industry.name].income_levels, test_mode)

\* Played_Industry.spend_resource on the t-th played industry of node g
spend_resource(c, g, t, test_mode) ==
    LET industry == c.h[g].played_industries[t]
    IN  IF industry.flipped THEN test(c, "cannot spend a resource", test_mode)
        ELSE IF industry.resource_remaining <= 0
        THEN test(c, "cannot spend a resource", test_mode)
        ELSE LET c1 == [c EXCEPT !.h[g].played_industries[t].resource_remaining = @ - 1,
                                 !.r = ""]
             IN  IF industry.resource_remaining - 1 = 0
                 THEN flip_and_award(c1, g, t, test_mode)
                 ELSE c1

\* sell without its second check (a tile already flipped is flipped again)
sell_unchecked(c, g, t, test_mode) ==
    LET industry == c.h[g].played_industries[t]
    IN  IF industry_dict[industry.name].industry_type # "Manufactured"
        THEN test(c, "cannot sell a resource", test_mode)
        ELSE flip_and_award(c, g, t, test_mode)

\* Played_Industry.sell on the t-th played industry of node g
sell(c, g, t, test_mode) ==
    LET industry == c.h[g].played_industries[t]
    IN  IF industry_dict[industry.name].industry_type # "Manufactured"
        THEN test(c, "cannot sell a resource", test_mode)
        ELSE IF industry.flipped THEN test(c, "cannot sell a resource", test_mode)
        ELSE flip_and_award(c, g, t, test_mode)

-----------------------------------------------------------------------------
(* Resource ledger *)

Min(S) == CHOOSE x \in S : \A y \in S : x <= y

\* Number of occurrences of x in the list
Count(list, x) == Cardinality({i \in DOMAIN list : list[i] = x})

\* A comparison of the lengths of the two lists alone
lengths_differ(a, b) == Len(a) # Len(b)

\* sorted(a) != sorted(b): two lists differ once sorted
sorted_differ(a, b) ==
    \/ Len(a) # Len(b)
    \/ \E x \in {a[i] : i \in DOMAIN a} \cup {b[i] : i \in DOMAIN b} : Count(a, x) # Count(b, x)

\* The for-loop of spend_resources stopping at the first played industry of the
\* needed family, whatever it holds
first_producer_any(c, g, resource_needed) ==
    LET S == {t \in DOMAIN c.h[g].played_industries :
                industry_dict[c.h[g].played_industries[t].name].industry = resource_needed}
    IN  IF S = {} THEN 0 ELSE Min(S)

\* The for-loop over self.played_industries of spend_resources: the first played
\* industry of node g of the needed family with resource_remaining > 0 (0: none)
first_producer(c, g, resource_needed) ==
    LET S == {t \in DOMAIN c.h[g].played_industries :
                /\ industry_dict[c.h[g].played_industries[t].name].industry = resource_needed
                /\ c.h[g].played_industries[t].resource_remaining > 0}
    IN  IF S = {} THEN 0 ELSE Min(S)

\* spent_resources.append(resource_needed), with where the unit came from
Spent(c, resource_needed, source) ==
    [c EXCEPT !.spends[Len(c.spends)].spent = Append(@, resource_needed),
              !.spends[Len(c.spends)].sources = Append(@, source)]

\* The else-branch of the for-loop with every kind on sale (what is neither coal
\* nor iron is had for nothing)
buy_from_market_any_kind(c, g, resource_needed, active_player, test_mode) ==
    [Spent(c, resource_needed, "market") EXCEPT !.r = ""]

\* The else-branch of the for-loop with a fill level that is raised without
\* regard to the length of the price table
buy_from_market_unclamped(c, g, resource_needed, active_player, test_mode) ==
    IF resource_needed = "Coal"
    THEN delta_money(Spent([c EXCEPT !.h[g].coal_market_last_filled = @ + 1],
                           resource_needed, "market"),
                     active_player,
                     -1 * coal_market_cost[c.h[g].coal_market_last_filled + 1], test_mode)
    ELSE IF resource_needed = "Iron"
    THEN delta_money(Spent([c EXCEPT !.h[g].iron_market_last_filled = @ + 1],
                           resource_needed, "market"),
                     active_player,
                     -1 * iron_market_cost[c.h[g].iron_market_last_filled + 1], test_mode)
    ELSE test(c, "cannot buy", test_mode)

\* The else-branch of the for-loop: buy one unit from the market of node g
buy_from_market(c, g, resource_needed, active_player, test_mode) ==
    IF resource_needed = "Coal"
    THEN LET level == c.h[g].coal_market_last_filled
             cost  == coal_market_cost[level + 1]
             c1    == [c EXCEPT !.h[g].coal_market_last_filled =
                                    IF level + 1 < Len(coal_market_cost) - 1
                                    THEN level + 1 ELSE Len(coal_market_cost) - 1]
         IN  delta_money(Spent(c1, resource_needed, "market"), active_player, -1 * cost, test_mode)
    ELSE IF resource_needed = "Iron"
    THEN LET level == c.h[g].iron_market_last_filled
             cost  == iron_market_cost[level + 1]
             c1    == [c EXCEPT !.h[g].iron_market_last_filled =
                                    IF level + 1 < Len(iron_market_cost) - 1
                                    THEN level + 1 ELSE Len(iron_market_cost) - 1]
         IN  delta_money(Spent(c1, resource_needed, "market"), active_player, -1 * cost, test_mode)
    ELSE test(c, "cannot buy", test_mode)

\* The body of spend_resources from the k-th entry of resource_locations on
RECURSIVE spend_from(_, _, _, _, _, _, _)
spend_from(c, g, resource_locations, k, required_resources, active_player, test_mode) ==
    IF k > Len(resource_locations)
    THEN IF sorted_differ(c.spends[Len(c.spends)].spent, required_resources)
         THEN test(c, "spent but was supposed to spend", test_mode)
         ELSE [c EXCEPT !.r = ""]
    ELSE LET resource_needed == resource_locations[k]
             t == first_producer(c, g, resource_needed)
         IN  Then(IF t # 0
                  THEN Then(spend_resource(c, g, t, test_mode),
                            LAMBDA d : Spent(d, resource_needed, "board"))
                  ELSE buy_from_market(c, g, resource_needed, active_player, test_mode),
                  LAMBDA c1 : spend_from(c1, g, resource_locations, k + 1,
                                         required_resources, active_player, test_mode))

\* The value returned by spend_resources, written to the record of the call
Returned(c) == [c EXCEPT !.spends[Len(c.spends)].r = c.r]

\* Game_State.spend_resources on node g; the call is appended to c.spends and its
\* returned value written there when it returns
spend_resources(c, g, resource_locations, required_resources, active_player, test_mode) ==
    Returned(spend_from([c EXCEPT !.spends = Append(@, [locations |-> resource_locations,
                                                        required |-> required_resources,
                                                        spent |-> <<>>, sources |-> <<>>,
                                                        r |-> ""])],
                        g, resource_locations, 1, required_resources, active_player,
                        test_mode))

-----------------------------------------------------------------------------
(* Turn/transition engine.  W is the node the command runs on (self). *)

\* increment_card_play without the case of the first round (the next player
\* always starts at card 0)
increment_card_play_two_cards(s) ==
    LET card  == s.active_player_card + 1
        index == IF card >= 2 THEN s.active_player_index + 1 ELSE s.active_player_index
        wrap  == index >= Len(s.players)
    IN  [s EXCEPT !.card_play = @ + 1,
                  !.active_player_card = IF card >= 2 THEN 0 ELSE card,
                  !.active_player_index = IF wrap THEN 0 ELSE index,
                  !.round = IF wrap THEN @ + 1 ELSE @]

\* increment_card_play with a turn of one card (the next player after every
\* card-play)
increment_card_play_one_card(s) ==
    LET wrap == s.active_player_index + 1 >= Len(s.players)
    IN  [s EXCEPT !.card_play = @ + 1,
                  !.active_player_card = 0,
                  !.active_player_index = IF wrap THEN 0 ELSE @ + 1,
                  !.round = IF wrap THEN @ + 1 ELSE @]

\* increment_card_play with the rail age begun when a round ends
increment_card_play_next_age(s) ==
    LET card_play == s.card_play + 1
        card      == s.active_player_card + 1
        index     == IF card >= 2 THEN s.active_player_index + 1 ELSE s.active_player_index
        card2     == IF card >= 2
                     THEN (IF card_play < Len(s.players) THEN 1 ELSE 0)
                     ELSE card
        wrap      == index >= Len(s.players)
    IN  [s EXCEPT !.card_play = card_play,
                  !.active_player_card = card2,
                  !.active_player_index = IF wrap THEN 0 ELSE index,
                  !.round = IF wrap THEN @ + 1 ELSE @,
                  !.age = IF wrap THEN "rail" ELSE @]

\* Game_State.increment_card_play
increment_card_play(s) ==
    LET card_play == s.card_play + 1
        card      == s.active_player_card + 1
        index     == IF card >= 2 THEN s.active_player_index + 1 ELSE s.active_player_index
        card2     == IF card >= 2
                     THEN (IF card_play < Len(s.players) THEN 1 ELSE 0)
                     ELSE card
        wrap      == index >= Len(s.players)
    IN  [s EXCEPT !.card_play = card_play,
                  !.active_player_card = card2,
                  !.active_player_index = IF wrap THEN 0 ELSE index,
                  !.round = IF wrap THEN @ + 1 ELSE @]

\* The while-loops of the build branch: sell the new tile's production to the market
RECURSIVE auto_sell(_, _, _, _, _, _)
auto_sell(c, W, t, industry, active_player, test_mode) ==
    LET level == IF industry = "Coal" THEN c.h[W].coal_market_last_filled
                                      ELSE c.h[W].iron_market_last_filled
        cost == IF industry = "Coal" THEN coal_market_cost[(level - 1) + 1]
                                     ELSE iron_market_cost[(level - 1) + 1]
    IN  IF ~(c.h[W].played_industries[t].resource_remaining > 0 /\ level > 0)
        THEN [c EXCEPT !.r = ""]
        ELSE Then(spend_resource(c, W, t, test_mode), LAMBDA c1 :
             Then(delta_money(IF industry = "Coal"
                              THEN [c1 EXCEPT !.h[W].coal_market_last_filled = @ - 1]
                              ELSE [c1 EXCEPT !.h[W].iron_market_last_filled = @ - 1],
                              active_player, cost, test_mode), LAMBDA c2 :
             auto_sell(c2, W, t, industry, active_player, test_mode)))

\* The build branch with the test of the age made before the player's steps
build_branch_checks_age_first(c, W, action, active_player, test_mode) ==
    LET name == action.arguments[1].tile
        built_tile == industry_dict[name]
    IN  IF built_tile.age_restriction # "" /\ built_tile.age_restriction # c.h[W].age
        THEN test(c, "cannot build in this age", test_mode)
        ELSE Then(build_tile(c, active_player, name, test_mode), LAMBDA c1 :
             Then(spend_resources(c1, W, action.arguments[1].resources,
                                  cost_list(name), active_player, test_mode), LAMBDA c2 :
             LET c3 == [c2 EXCEPT !.h[W].played_industries =
                            Append(@, Played_Industry(active_player, name, c2.h[W].age))]
                 t  == Len(c2.h[W].played_industries) + 1
             IN  IF built_tile.industry \in {"Coal", "Iron"}
                 THEN auto_sell(c3, W, t, built_tile.industry, active_player, test_mode)
                 ELSE c3))

\* _take_action_self, build branch
build_branch(c, W, action, active_player, test_mode) ==
    LET name == action.arguments[1].tile
        built_tile == industry_dict[name]
    IN  Then(build_tile(c, active_player, name, test_mode), LAMBDA c1 :
        IF built_tile.age_restriction # "" /\ built_tile.age_restriction # c1.h[W].age
        THEN test(c1, "cannot build in this age", test_mode)
        ELSE Then(spend_resources(c1, W, action.arguments[1].resources,
                                  cost_list(name), active_player, test_mode), LAMBDA c2 :
             LET c3 == [c2 EXCEPT !.h[W].played_industries =
                            Append(@, Played_Industry(active_player, name, c2.h[W].age))]
                 t  == Len(c2.h[W].played_industries) + 1
             IN  IF built_tile.industry \in {"Coal", "Iron"}
                 THEN auto_sell(c3, W, t, built_tile.industry, active_player, test_mode)
                 ELSE c3))

\* The network branch with the 3 of the canal link debited in every age
network_branch_always_3(c, W, action, active_player, test_mode) ==
    Then(delta_money(c, active_player, -3, test_mode),
         LAMBDA c1 :
    Then(IF c1.h[W].age # "rail" THEN c1
         ELSE IF Len(action.arguments) = 1
         THEN Then(delta_money(c1, active_player, -5, test_mode), LAMBDA d :
              spend_resources(d, W, <<"Coal">>, <<"Coal">>, active_player, test_mode))
         ELSE IF Len(action.arguments) = 2
         THEN Then(delta_money(c1, active_player, -15, test_mode), LAMBDA d :
              Then(spend_resources(d, W, <<"Coal">>, <<"Coal">>, active_player, test_mode),
                   LAMBDA e :
              spend_resources(e, W, <<"Coal", "Beer">>, <<"Coal", "Beer">>,
                              active_player, test_mode)))
         ELSE test(c1, "cannot build a rail link", test_mode),
         LAMBDA c2 :
    [c2 EXCEPT !.h[W].played_links = Append(@, "Unknown")]))

\* _take_action_self, network branch
network_branch(c, W, action, active_player, test_mode) ==
    Then(IF c.h[W].age = "canal" THEN delta_money(c, active_player, -3, test_mode) ELSE c,
         LAMBDA c1 :
    Then(IF c1.h[W].age # "rail" THEN c1
         ELSE IF Len(action.arguments) = 1
         THEN Then(delta_money(c1, active_player, -5, test_mode), LAMBDA d :
              spend_resources(d, W, <<"Coal">>, <<"Coal">>, active_player, test_mode))
         ELSE IF Len(action.arguments) = 2
         THEN Then(delta_money(c1, active_player, -15, test_mode), LAMBDA d :
              Then(spend_resources(d, W, <<"Coal">>, <<"Coal">>, active_player, test_mode),
                   LAMBDA e :
              spend_resources(e, W, <<"Coal", "Beer">>, <<"Coal", "Beer">>,
                              active_player, test_mode)))
         ELSE test(c1, "cannot build a rail link", test_mode),
         LAMBDA c2 :
    [c2 EXCEPT !.h[W].played_links = Append(@, "Unknown")]))

\* _take_action_self, develop branch from the k-th argument on.  The ledger is
\* called on the module-level `game` (node g), not on self.
RECURSIVE develop_branch(_, _, _, _, _, _, _)
develop_branch(c, W, g, action, k, active_player, test_mode) ==
    IF k > Len(action.arguments) THEN [c EXCEPT !.r = ""]
    ELSE Then(develop_tile(c, active_player, action.arguments[k].tile, test_mode),
              LAMBDA c1 :
         Then(spend_resources(c1, g, action.arguments[k].resources, <<"Iron">>,
                              active_player, test_mode), LAMBDA c2 :
         develop_branch(c2, W, g, action, k + 1, active_player, test_mode)))

\* _take_action_self, sell branch: the value returned by played_industry.sell
\* is not looked at
sell_branch(c, W, action, active_player, test_mode) ==
    LET tile_name == action.arguments[1].tile
        S == {t \in DOMAIN c.h[W].played_industries :
                 c.h[W].played_industries[t].name = tile_name}
        beer == Repeat("Beer", industry_dict[tile_name].beer_cost)
    IN  IF S = {} THEN test(c, "cannot sell: no such played industry", test_mode)
        ELSE Ignoring(sell(c, W, Min(S), test_mode), LAMBDA c1 :
             spend_resources(c1, W, beer, beer, active_player, test_mode))

\* The loan branch with the value returned by active_player.loan looked at
loan_branch_checked(c, W, action, active_player, test_mode) ==
    Then(loan(c, active_player, test_mode), LAMBDA c1 : c1)

\* _take_action_self, loan branch: the value returned by active_player.loan is
\* not looked at
loan_branch(c, W, action, active_player, test_mode) ==
    Ignoring(loan(c, active_player, test_mode), LAMBDA c1 : c1)

\* _take_action_self with a pass that is a card-play (the branch returns nothing)
take_action_self_pass_plays(c, W, g, action, test_mode) ==
    LET c0 == [c EXCEPT !.h[W].previous_action = action]
        s  == c.h[W]
        active_player == <<W, s.active_player_index + 1>>
    IN  IF action.player_id # s.players[s.active_player_index + 1].player_id
        THEN test(c0, "cannot take action during another player's turn", test_mode)
        ELSE Then(CASE action.main_action = "build" ->
                           build_branch(c0, W, action, active_player, test_mode)
                    [] action.main_action = "network" ->
                           network_branch(c0, W, action, active_player, test_mode)
                    [] action.main_action = "develop" ->
                           develop_branch(c0, W, g, action, 1, active_player, test_mode)
                    [] action.main_action = "sell" ->
                           sell_branch(c0, W, action, active_player, test_mode)
                    [] action.main_action = "loan" ->
                           loan_branch(c0, W, action, active_player, test_mode)
                    [] action.main_action = "scout" -> test(c0, "cannot scout", test_mode)
                    [] action.main_action = "pass" -> c0
                    [] OTHER -> test(c0, "not a valid action", test_mode),
                  LAMBDA c1 : [c1 EXCEPT !.h[W] = increment_card_play(@), !.r = ""])

\* _take_action_self without its test of the acting player
take_action_self_any_player(c, W, g, action, test_mode) ==
    LET c0 == [c EXCEPT !.h[W].previous_action = action]
        s  == c.h[W]
        active_player == <<W, s.active_player_index + 1>>
    IN  Then(CASE action.main_action = "build" ->
                      build_branch(c0, W, action, active_player, test_mode)
               [] action.main_action = "network" ->
                      network_branch(c0, W, action, active_player, test_mode)
               [] action.main_action = "develop" ->
                      develop_branch(c0, W, g, action, 1, active_player, test_mode)
               [] action.main_action = "sell" ->
                      sell_branch(c0, W, action, active_player, test_mode)
               [] action.main_action = "loan" ->
                      loan_branch(c0, W, action, active_player, test_mode)
               [] action.main_action = "scout" -> test(c0, "cannot scout", test_mode)
               [] action.main_action = "pass" -> test(c0, "cannot pass", test_mode)
               [] OTHER -> test(c0, "not a valid action", test_mode),
             LAMBDA c1 : [c1 EXCEPT !.h[W] = increment_card_play(@), !.r = ""])

\* Game_State._take_action_self on node W, with the module-level `game` = node g
take_action_self(c, W, g, action, test_mode) ==
    LET c0 == [c EXCEPT !.h[W].previous_action = action]
        s  == c.h[W]
        active_player == <<W, s.active_player_index + 1>>
    IN  IF action.player_id # s.players[s.active_player_index + 1].player_id
        THEN test(c0, "cannot take action during another player's turn", test_mode)
        ELSE Then(CASE action.main_action = "build" ->
                           build_branch(c0, W, action, active_player, test_mode)
                    [] action.main_action = "network" ->
                           network_branch(c0, W, action, active_player, test_mode)
                    [] action.main_action = "develop" ->
                           develop_branch(c0, W, g, action, 1, active_player, test_mode)
                    [] action.main_action = "sell" ->
                           sell_branch(c0, W, action, active_player, test_mode)
                    [] action.main_action = "loan" ->
                           loan_branch(c0, W, action, active_player, test_mode)
                    [] action.main_action = "scout" -> test(c0, "cannot scout", test_mode)
                    [] action.main_action = "pass" -> test(c0, "cannot pass", test_mode)
                    [] OTHER -> test(c0, "not a valid action", test_mode),
                  LAMBDA c1 : [c1 EXCEPT !.h[W] = increment_card_play(@), !.r = ""])

\* Game_State.take_action_copy on nodes[p]: the working copy is h[Len(h) + 1]
take_action_copy(h, p, g, action, test_mode) ==
    take_action_self(Context(Append(h, copy(h, p))), Len(h) + 1, g, action, test_mode)

-----------------------------------------------------------------------------
(* Commands handed to the engine *)

\* Action_Argument_Build / _Sell / _Develop / _Network (the two locations of a
\* network argument are kept in `location`; the engine reads neither)
Argument(tile, location, resources) ==
    [tile |-> tile, location |-> location, resources |-> resources]

\* Action
Action(card_play, player_id, card, main_action, action_arguments_list) ==
    [card_play |-> card_play, player_id |-> player_id, used_card |-> card,
     main_action |-> main_action, arguments |-> action_arguments_list]

\* Resource lists tried for a build besides the tile's own cost list: for a tile
\* costing one coal a list that is too short, of the wrong kind, unbuyable, too long
WrongResources == {<<>>, <<"Iron">>, <<"Beer">>, <<"Coal", "Coal">>}

\* cost_list reversed (the same multiset in another order)
Reverse(list) == [i \in DOMAIN list |-> list[Len(list) + 1 - i]]

\* The argument lists explored, by action kind
ArgumentLists(main_action) ==
    CASE main_action = "build" ->
             {<<Argument(t, "@Unknown0", cost_list(t))>> : t \in TileNames}
             \cup {<<Argument(t, "@Unknown0", Reverse(cost_list(t)))>> : t \in TileNames}
             \cup {<<Argument("Iron0", "@Unknown0", r)>> : r \in WrongResources}
             \cup {<<Argument("Coal0", "@Unknown0", <<"Coal">>)>>}
      [] main_action = "network" ->
             {Repeat(Argument("", "@Unknown0.@Unknown1", <<>>), n) : n \in 0..3}
      [] main_action = "develop" ->
             {<<Argument(t, "", <<"Iron">>)>> :
                 t \in {"Coal0", "Coal1", "Iron0", "Pottery0", "Shed0"}}
             \cup {<<Argument("Coal0", "", r)>> : r \in {<<>>, <<"Coal">>}}
             \cup {<<Argument("Coal0", "", <<"Iron">>), Argument(u, "", <<"Iron">>)>> :
                      u \in {"Coal0", "Coal1", "Iron0", "Pottery0"}}
      [] main_action = "sell" ->
             {<<Argument(t, "$Unknown0", Repeat("Beer", industry_dict[t].beer_cost))>> :
                 t \in TileNames}
      [] main_action = "scout" -> {<<Argument("", "Unknown", <<>>)>>}
      [] OTHER -> {<<>>}

MainActions == {"build", "network", "develop", "sell", "loan", "scout", "pass", "trade"}

\* One argument list per action kind for the commands sent out of turn
OutOfTurnArguments(main_action) ==
    CASE main_action = "build" -> <<Argument("Coal0", "@Unknown0", <<>>)>>
      [] main_action = "network" -> <<Argument("", "@Unknown0.@Unknown1", <<>>)>>
      [] main_action = "develop" -> <<Argument("Coal0", "", <<"Iron">>)>>
      [] main_action = "sell" -> <<Argument("Shed0", "$Unknown0", <<>>)>>
      [] main_action = "scout" -> <<Argument("", "Unknown", <<>>)>>
      [] OTHER -> <<>>

\* Commands for state s: those carrying the active player's index (as
\* main.py:877 forms them), and one of every kind carrying another id
Commands(s) ==
    UNION {{Action(s.card_play, s.active_player_index, "Unknown", m, a) :
               a \in ArgumentLists(m)} : m \in MainActions}
    \cup {Action(s.card_play, s.active_player_index + 1, "Unknown", m, OutOfTurnArguments(m)) :
             m \in MainActions}

-----------------------------------------------------------------------------
(* Candidate commands and the supervisor *)

\* The keys of Player.industry_next in the order of the dict (main.py:299)
FamilyOrder == <<"Crate", "Shed", "Pottery", "Beer", "Iron", "Coal">>

\* Player.get_build_options from the k-th family on: the next tile of every
\* family whose index is below the length of its layout
RECURSIVE build_options_from(_, _)
build_options_from(player, k) ==
    IF k > Len(FamilyOrder) THEN <<>>
    ELSE (IF player.industry_next[FamilyOrder[k]] < Len(industry_layout[FamilyOrder[k]])
          THEN <<industry_layout[FamilyOrder[k]][player.industry_next[FamilyOrder[k]] + 1]>>
          ELSE <<>>)
         \o build_options_from(player, k + 1)

\* Player.get_build_options
get_build_options(player) == build_options_from(player, 1)

\* get_untested_actions, first loop: one build per build option
RECURSIVE build_actions(_, _)
build_actions(s, options) ==
    IF options = <<>> THEN <<>>
    ELSE <<Action(s.card_play, s.active_player_index, "Unknown", "build",
                  <<Argument(Head(options), "@Unknown0", cost_list(Head(options)))>>)>>
         \o build_actions(s, Tail(options))

\* The last loop of get_untested_actions without its test of `flipped`
RECURSIVE sell_actions_also_flipped(_, _)
sell_actions_also_flipped(s, played_industries) ==
    IF played_industries = <<>> THEN <<>>
    ELSE (IF industry_dict[Head(played_industries).name].industry_type = "Manufactured"
          THEN <<Action(s.card_play, s.active_player_index, "Unknown", "sell",
                        <<Argument(Head(played_industries).name, "$Unknown0",
                                   Repeat("Beer",
                                          industry_dict[Head(played_industries).name].beer_cost))>>)>>
          ELSE <<>>)
         \o sell_actions_also_flipped(s, Tail(played_industries))

\* get_untested_actions, last loop: one sell per played industry that is
\* Manufactured and not flipped
RECURSIVE sell_actions(_, _)
sell_actions(s, played_industries) ==
    IF played_industries = <<>> THEN <<>>
    ELSE (IF /\ industry_dict[Head(played_industries).name].industry_type = "Manufactured"
             /\ ~Head(played_industries).flipped
          THEN <<Action(s.card_play, s.active_player_index, "Unknown", "sell",
                        <<Argument(Head(played_industries).name, "$Unknown0",
                                   Repeat("Beer",
                                          industry_dict[Head(played_industries).name].beer_cost))>>)>>
          ELSE <<>>)
         \o sell_actions(s, Tail(played_industries))

\* get_untested_actions with a sell for the flipped tiles too
get_untested_actions_also_flipped(s) ==
    build_actions(s, get_build_options(s.players[s.active_player_index + 1]))
    \o <<Action(s.card_play, s.active_player_index, "card", "loan", <<>>)>>
    \o sell_actions_also_flipped(s, s.played_industries)

\* Game_State.get_untested_actions
get_untested_actions(s) ==
    build_actions(s, get_build_options(s.players[s.active_player_index + 1]))
    \o <<Action(s.card_play, s.active_player_index, "card", "loan", <<>>)>>
    \o sell_actions(s, s.played_industries)

\* get_valid_children, one turn of its loop: the call has run on the objects
\* held (the first n of c.h); the new state is kept if nothing was returned
Tested(acc, c, n) ==
    [h |-> SubSeq(c.h, 1, n),
     children |-> IF c.r = "" THEN Append(acc.children, c.h[n + 1]) ELSE acc.children]

\* get_valid_children from the k-th candidate on (test mode: the sub controller)
RECURSIVE valid_children_from(_, _, _, _, _)
valid_children_from(acc, p, g, actions, k) ==
    IF k > Len(actions) THEN acc
    ELSE valid_children_from(
             Tested(acc, take_action_copy(acc.h, p, g, actions[k], TRUE), Len(acc.h)),
             p, g, actions, k + 1)

\* Supervisor.get_valid_children on nodes[p]: the objects held afterwards and
\* the list of children
get_valid_children(h, p, g) ==
    valid_children_from([h |-> h, children |-> <<>>], p, g, get_untested_actions(h[p]), 1)

\* Action_Controller.next_game_completion: with record_actions_flag the chosen
\* command is applied again to the parent, in the controller's own mode
next_game_completion(h, chosen_child, g, record, test_mode) ==
    IF record
    THEN take_action_copy(h, chosen_child.parent, g, chosen_child.previous_action, test_mode)
    ELSE Context(h)

-----------------------------------------------------------------------------
(* The state machine *)

NoCall ==
    [parent |-> NoParent, action |-> NoAction, test_mode |-> TRUE, r |-> "",
     raised |-> FALSE, work |-> Game_State, spends |-> <<>>]

Init ==
    /\ nodes = <<Game_State>>
    /\ game = 1
    /\ pc = "idle"
    /\ last = NoCall
    /\ mutations = 0
    /\ unit = 0

\* The newest state held
Tip == Len(nodes)

\* game.take_action_copy(action, controller) on the newest state, up to its
\* return or its exception
Call(action, test_mode) ==
    /\ pc = "idle"
    /\ LET c == take_action_copy(nodes, Tip, game, action, test_mode)
           held == SubSeq(c.h, 1, Len(nodes))
       IN  /\ held # nodes => mutations < MaxMutations
           /\ nodes' = held
           /\ mutations' = IF held # nodes THEN mutations + 1 ELSE mutations
           /\ last' = [parent |-> Tip, action |-> action, test_mode |-> test_mode,
                       r |-> c.r, raised |-> c.raised, work |-> c.h[Len(nodes) + 1],
                       spends |-> c.spends]
           /\ pc' = IF c.raised THEN "raised" ELSE "returned"
    /\ UNCHANGED <<game, unit>>

\* The caller keeps the state of a command that did not fail and goes on from it
\* (main.py:879 rebinds the module-level `game` to it)
Keep ==
    /\ pc = "returned"
    /\ last.r = ""
    /\ Len(nodes) < MaxNodes
    /\ nodes' = Append(nodes, last.work)
    /\ game' = IF last.parent = game THEN Len(nodes) + 1 ELSE game
    /\ pc' = "idle"
    /\ last' = NoCall
    /\ UNCHANGED <<mutations, unit>>

\* The caller drops the returned state
Discard ==
    /\ pc = "returned"
    /\ pc' = "idle"
    /\ last' = NoCall
    /\ UNCHANGED <<nodes, game, mutations, unit>>

Next ==
    \/ \E action \in Commands(nodes[Tip]), test_mode \in BOOLEAN : Call(action, test_mode)
    \/ Keep
    \/ Discard

Spec == Init /\ [][Next]_vars

-----------------------------------------------------------------------------
(* A played industry on its own: the tile is constructed for a new player and  *)
(* spend_resource and sell are called on it, in either mode.                   *)

Ages == {"canal", "rail"}

\* Lists of up to MaxTiles distinct tile names
TileLists ==
    {list \in UNION {[1..n -> TileNames] : n \in 1..MaxTiles} :
        \A i, j \in DOMAIN list : i # j => list[i] # list[j]}

\* Played_Industry(player, industry_dict[name], age) for each name of the list
RECURSIVE Played(_, _, _)
Played(player, list, age) ==
    IF list = <<>> THEN <<>>
    ELSE <<Played_Industry(player, Head(list), age)>> \o Played(player, Tail(list), age)

NoOp ==
    [op |-> "None", t |-> 0, test_mode |-> TRUE, r |-> "", raised |-> FALSE,
     before |-> <<>>]

\* Tiles constructed for the player of a new game
InitTile ==
    /\ \E list \in TileLists, age \in Ages :
           nodes = <<[Game_State EXCEPT !.played_industries = Played(<<1, 1>>, list, age)]>>
    /\ game = 1
    /\ pc = "tile"
    /\ last = NoCall
    /\ mutations = 0
    /\ unit = NoOp

\* industry.spend_resource(controller) on the t-th tile, up to its return or its
\* exception
TileSpendResource(t, test_mode) ==
    /\ pc = "tile"
    /\ LET c == spend_resource(Context(nodes), 1, t, test_mode)
       IN  /\ nodes' = c.h
           /\ unit' = [op |-> "spend_resource", t |-> t, test_mode |-> test_mode,
                       r |-> c.r, raised |-> c.raised, before |-> nodes]
           /\ pc' = IF c.raised THEN "tile_raised" ELSE "tile"
    /\ UNCHANGED <<game, last, mutations>>

\* industry.sell(controller) on the t-th tile, up to its return or its exception
TileSell(t, test_mode) ==
    /\ pc = "tile"
    /\ LET c == sell(Context(nodes), 1, t, test_mode)
       IN  /\ nodes' = c.h
           /\ unit' = [op |-> "sell", t |-> t, test_mode |-> test_mode,
                       r |-> c.r, raised |-> c.raised, before |-> nodes]
           /\ pc' = IF c.raised THEN "tile_raised" ELSE "tile"
    /\ UNCHANGED <<game, last, mutations>>

NextTile ==
    \/ \E t \in DOMAIN nodes[1].played_industries, test_mode \in BOOLEAN :
           TileSpendResource(t, test_mode)
    \/ \E t \in DOMAIN nodes[1].played_industries, test_mode \in BOOLEAN :
           TileSell(t, test_mode)

SpecTile == InitTile /\ [][NextTile]_vars

-----------------------------------------------------------------------------
(* The turn order: a table of n players (Game_State.__init__ seats one; the   *)
(* list is made longer here), and commands that touch no tile.                *)

\* [Player(0), ..., Player(n - 1)]
RECURSIVE Players(_)
Players(n) == IF n = 0 THEN <<>> ELSE Append(Players(n - 1), Player(n - 1))

InitTurn ==
    /\ \E n \in 1..MaxPlayers : nodes = <<[Game_State EXCEPT !.players = Players(n)]>>
    /\ game = 1
    /\ pc = "idle"
    /\ last = NoCall
    /\ mutations = 0
    /\ unit = 0

\* Commands without tiles: a link, a loan, a pass, an unknown kind, and every
\* kind sent by a player whose turn it is not
TurnCommands(s) ==
    {a \in Commands(s) :
        \/ a.main_action \in {"loan", "pass", "trade"}
        \/ a.main_action = "network" /\ Len(a.arguments) = 1
        \/ a.player_id # s.active_player_index}

\* The caller keeps the state of a command that did not fail and goes on from it
TurnKeep ==
    /\ pc = "returned"
    /\ last.r = ""
    /\ last.work.card_play <= MaxCardPlay
    /\ nodes' = Append(nodes, last.work)
    /\ game' = IF last.parent = game THEN Len(nodes) + 1 ELSE game
    /\ pc' = "idle"
    /\ last' = NoCall
    /\ UNCHANGED <<mutations, unit>>

NextTurn ==
    \/ \E action \in TurnCommands(nodes[Tip]), test_mode \in BOOLEAN : Call(action, test_mode)
    \/ TurnKeep
    \/ Discard

SpecTurn == InitTurn /\ [][NextTurn]_vars

-----------------------------------------------------------------------------
(* Supervisor.complete_game on a new game.  `unit` holds the flags of the     *)
(* controller handed to it; the state the loop is at is the newest one held.  *)

\* `while game.round < 8` (main.py:839)
LastRound == 8

InitComplete ==
    /\ nodes = <<Game_State>>
    /\ game = 1
    /\ pc = "loop"
    /\ last = NoCall
    /\ mutations = 0
    /\ \E record \in BOOLEAN, test_mode \in BOOLEAN :
           unit = [record |-> record, test_mode |-> test_mode, again |-> Game_State]

\* decide_and_perform_action once a child is chosen: next_game_completion, then
\* `return chosen_child`; unit.again is the state the second application made
\* (unused by the program)
Chosen(h, chosen_child) ==
    LET c == next_game_completion(h, chosen_child, game, unit.record, unit.test_mode)
    IN  /\ nodes' = IF c.raised THEN SubSeq(c.h, 1, Len(h))
                    ELSE Append(SubSeq(c.h, 1, Len(h)), chosen_child)
        /\ pc' = IF c.raised THEN "raised" ELSE "loop"
        /\ last' = [parent |-> chosen_child.parent, action |-> chosen_child.previous_action,
                    test_mode |-> unit.test_mode, r |-> c.r, raised |-> c.raised,
                    work |-> chosen_child, spends |-> c.spends]
        /\ unit' = [unit EXCEPT !.again = IF unit.record THEN c.h[Len(h) + 1]
                                                         ELSE Game_State]

\* One turn of the loop of complete_game: the test of the round, then
\* decide_and_perform_action (get_valid_children, the stuck-state error,
\* random.choice)
CompleteStep ==
    /\ pc = "loop"
    /\ Len(nodes) <= MaxPlays
    /\ IF nodes[Tip].round >= LastRound
       THEN pc' = "returned" /\ UNCHANGED <<nodes, last, unit>>
       ELSE LET v == get_valid_children(nodes, Tip, game)
            IN  IF v.children = <<>>
                THEN pc' = "stuck" /\ nodes' = v.h /\ UNCHANGED <<last, unit>>
                ELSE \E i \in DOMAIN v.children : Chosen(v.h, v.children[i])
    /\ UNCHANGED <<game, mutations>>

NextComplete == CompleteStep

SpecComplete == InitComplete /\ [][NextComplete]_vars

-----------------------------------------------------------------------------
(* Properties of the transition engine, checked under Spec *)

\* A step in which take_action_copy runs
CallStep == pc = "idle" /\ pc' # "idle"

\* The state the last command was applied to
Parent == nodes[last.parent]

Money(s) == [i \in DOMAIN s.players |-> s.players[i].money]

\* C1: every command reported as successful yields a state in which every
\* player's funds are >= 0, so does every state a caller holds; a command that
\* leaves funds below 0 on its working copy is reported as a failure; and the
\* call leaves the funds of every state the caller held unchanged.
C1_FundsState ==
    /\ \A n \in DOMAIN nodes : \A i \in DOMAIN nodes[n].players :
           nodes[n].players[i].money >= 0
    /\ pc # "idle" =>
           ((\E i \in DOMAIN last.work.players : last.work.players[i].money < 0)
               => last.r # "")

C1_FundsStep ==
    CallStep => \A n \in DOMAIN nodes : Money(nodes'[n]) = Money(nodes[n])

C1_FundsNeverNegative == [](C1_FundsState) /\ [][C1_FundsStep]_vars

\* C1 witness: a command rejected for funds; the state it was applied to has
\* its funds, the working copy is below 0.
C1_Witness ==
    /\ pc = "returned"
    /\ last.r = "negative money"
    /\ last.work.players[1].money < 0
    /\ Parent.players[1].money >= 0
    /\ Parent.players[1].money < starting_money

\* C2: in every state produced by a command reported as successful, and in every
\* state a caller holds, income level is within [0, 99] and score is >= 0.
InRange(s) ==
    \A i \in DOMAIN s.players :
        /\ s.players[i].income_level >= 0
        /\ s.players[i].income_level <= 99
        /\ s.players[i].points >= 0

C2_IncomeAndScoreInRange ==
    /\ \A n \in DOMAIN nodes : InRange(nodes[n])
    /\ (pc = "returned" /\ last.r = "") => InRange(last.work)

\* C3: applying a command through take_action_copy changes no field of the state
\* it is applied to nor of any of its ancestors.
C3_CallLeavesHeldStates == [][CallStep => nodes' = nodes]_vars

\* Tile `new` of a state against the same tile `old` of the state it came from
Tiles(s) == s.played_industries

NotAbove(new, old) ==
    /\ new.name = old.name
    /\ new.resource_remaining <= old.resource_remaining
    /\ old.flipped => new.flipped

\* State `child` continues the tiles of state `par`
Continues(child, par) ==
    /\ Len(Tiles(child)) >= Len(Tiles(par))
    /\ \A t \in DOMAIN Tiles(par) : NotAbove(Tiles(child)[t], Tiles(par)[t])

\* C4: along a lineage (every held state after its parent, the state produced by
\* a successful command after the state it was applied to) a played tile's
\* remaining-production never increases and is never negative, and its flipped
\* flag never goes from true back to false.
C4_TileMonotone ==
    /\ \A n \in DOMAIN nodes : \A t \in DOMAIN Tiles(nodes[n]) :
           Tiles(nodes[n])[t].resource_remaining >= 0
    /\ \A n \in DOMAIN nodes :
           nodes[n].parent # NoParent => Continues(nodes[n], nodes[nodes[n].parent])
    /\ (pc = "returned" /\ last.r = "") =>
           /\ \A t \in DOMAIN Tiles(last.work) : Tiles(last.work)[t].resource_remaining >= 0
           /\ Continues(last.work, Parent)

\* Sum of f over a finite set
RECURSIVE SumOver(_, _)
SumOver(S, f) ==
    IF S = {} THEN 0
    ELSE LET x == CHOOSE y \in S : TRUE IN f[x] + SumOver(S \ {x}, f)

\* The tiles of state w that are flipped and were not in state `par` (new, or
\* unflipped there)
NewlyFlipped(w, par) ==
    {t \in DOMAIN Tiles(w) :
        /\ Tiles(w)[t].flipped
        /\ (t \notin DOMAIN Tiles(par) \/ ~Tiles(par)[t].flipped)}

\* C5: in the step in which a tile's flag turns true, and in no other, its owner
\* in the state produced receives the tile's score value and income award: the
\* owner's score after a successful command is the score before it plus the
\* score values of the tiles that flipped in it, and so is the income level
\* (but for a loan).
C5_AwardWithFlip ==
    [][(CallStep /\ last'.r = "") =>
          LET w == last'.work
              par == nodes[Tip]
              flips(i) == {t \in NewlyFlipped(w, par) : Tiles(w)[t].player[2] = i}
              pts == [t \in DOMAIN Tiles(w) |-> industry_dict[Tiles(w)[t].name].points]
              inc == [t \in DOMAIN Tiles(w) |-> industry_dict[Tiles(w)[t].name].income_levels]
          IN  \A i \in DOMAIN w.players :
                  /\ w.players[i].points = par.players[i].points + SumOver(flips(i), pts)
                  /\ last'.action.main_action # "loan" =>
                         w.players[i].income_level
                             = par.players[i].income_level + SumOver(flips(i), inc)]_vars

\* Lists a and b hold the same kinds the same number of times: b is a
\* rearrangement of a
SameMultiset(a, b) ==
    /\ Len(a) = Len(b)
    /\ \E f \in [DOMAIN a -> DOMAIN b] :
           /\ \A i, j \in DOMAIN a : i # j => f[i] # f[j]
           /\ \A i \in DOMAIN a : a[i] = b[f[i]]

\* C7: for every call of spend_resources made by a command, if it returned
\* without a failure then the kinds consumed (each unit taken from a played
\* industry or bought from the market) are the required list up to order; and
\* if the list given by the caller and the required list differ as multisets,
\* the call reported a failure.
C7_SpentIsRequired ==
    \A k \in DOMAIN last.spends :
        LET e == last.spends[k]
        IN  /\ Len(e.sources) = Len(e.spent)
            /\ e.r = "" => SameMultiset(e.spent, e.required)
            /\ ~SameMultiset(e.locations, e.required) => e.r # ""

\* C7 witness: a successful spend of two units given in the order opposite to
\* the required list, one taken from a played industry and one bought.
C7_Witness ==
    /\ pc = "returned"
    /\ last.r = ""
    /\ \E k \in DOMAIN last.spends :
           /\ last.spends[k].r = ""
           /\ last.spends[k].spent # last.spends[k].required
           /\ {last.spends[k].sources[i] : i \in DOMAIN last.spends[k].sources}
                  = {"board", "market"}

\* The arguments of a command that name a tile to build or develop (a build
\* reads its first argument only)
Named(action) ==
    IF action.main_action = "build" THEN <<action.arguments[1]>>
    ELSE IF action.main_action = "develop" THEN action.arguments
    ELSE <<>>

\* From the k-th argument on, each names the tile whose sequence is the index
\* its family has reached, starting from the indices `next`
RECURSIVE InOrder(_, _, _)
InOrder(arguments, k, next) ==
    IF k > Len(arguments) THEN TRUE
    ELSE LET tile == industry_dict[arguments[k].tile]
         IN  /\ tile.sequence = next[tile.industry]
             /\ InOrder(arguments, k + 1, [next EXCEPT ![tile.industry] = @ + 1])

\* The indices `next` plus one for every argument naming a tile of the family
After(arguments, next) ==
    [f \in Families |->
        next[f] + Cardinality({k \in DOMAIN arguments :
                                  industry_dict[arguments[k].tile].industry = f})]

WithinLayout(s) ==
    \A i \in DOMAIN s.players : \A f \in Families :
        /\ s.players[i].industry_next[f] >= 0
        /\ s.players[i].industry_next[f] <= Len(industry_layout[f])

\* C9: a build or develop succeeds only if each tile it names has the sequence
\* its family's next-buildable index has reached (so the i-th one of a family
\* names sequence i), and then the index is the old one plus the tiles named;
\* one naming another sequence fails; no other command moves an index; along
\* a lineage no index decreases, and none exceeds its family's tile count.
C9_State ==
    /\ \A n \in DOMAIN nodes :
           /\ WithinLayout(nodes[n])
           /\ nodes[n].parent # NoParent =>
                  \A i \in DOMAIN nodes[n].players : \A f \in Families :
                      nodes[n].players[i].industry_next[f]
                          >= nodes[nodes[n].parent].players[i].industry_next[f]
    /\ (pc = "returned" /\ last.r = "") => WithinLayout(last.work)

C9_Step ==
    CallStep =>
        LET s == nodes[Tip]
            w == last'.work
            i == s.active_player_index + 1
            next == s.players[i].industry_next
            named == Named(last'.action)
            in_turn == last'.action.player_id = s.players[i].player_id
        IN  /\ (in_turn /\ ~InOrder(named, 1, next)) => last'.r # ""
            /\ last'.r = "" =>
                   /\ w.players[i].industry_next = After(named, next)
                   /\ \A j \in DOMAIN w.players :
                          j # i => w.players[j].industry_next = s.players[j].industry_next

C9_TilesInSequence == [](C9_State) /\ [][C9_Step]_vars

\* C9 witness: a develop naming the two tiles of a family in order succeeded;
\* the index went from 0 to the family's tile count.
C9_Witness ==
    /\ pc = "returned"
    /\ last.r = ""
    /\ last.action.main_action = "develop"
    /\ Len(last.action.arguments) = 2
    /\ Parent.players[1].industry_next["Coal"] = 0
    /\ last.work.players[1].industry_next["Coal"] = Len(industry_layout["Coal"])

\* C10: for every state and command, the command applied in test mode returns a
\* failure reason if and only if the same command applied to the same state in
\* perform mode raises; and when it succeeds the two modes produce equal states
\* (and leave the states held equal).
C10_ModesAgree ==
    [][CallStep =>
          LET tested    == take_action_copy(nodes, Tip, game, last'.action, TRUE)
              performed == take_action_copy(nodes, Tip, game, last'.action, FALSE)
          IN  /\ tested.r # "" <=> performed.raised
              /\ tested.r = "" => tested.h = performed.h]_vars

-----------------------------------------------------------------------------
(* Properties of a played industry, checked under SpecTile *)

-----------------------------------------------------------------------------
(* Properties of the turn order, checked under SpecTurn *)

\* The turn counters of a state
Turn(s) == <<s.card_play, s.active_player_index, s.active_player_card, s.round>>

\* After c successful card plays at a table of n: the first n plays are one per
\* player (round 0), every later round gives each player two plays
ExpectedIndex(c, n) == IF c < n THEN c ELSE ((c - n) % (2 * n)) \div 2

ExpectedRound(c, n) == IF c < n THEN 0 ELSE 1 + ((c - n) \div (2 * n))

\* The c-th successful card play is the last of its player's turn
EndsTurn(c, n) == c <= n \/ (c - n) % 2 = 0

OnSchedule(s) ==
    /\ s.active_player_index = ExpectedIndex(s.card_play, Len(s.players))
    /\ s.round = ExpectedRound(s.card_play, Len(s.players))

\* C8: with n players, from round 0, the active index advances after each
\* player's single successful play in round 0 and after every second
\* successful play of the same player later; the round goes up by exactly 1 at
\* exactly the steps in which the index wraps from the last player to player 0;
\* a failed command advances nothing.
C8_State ==
    /\ \A k \in DOMAIN nodes : OnSchedule(nodes[k])
    /\ (pc = "returned" /\ last.r = "") => OnSchedule(last.work)

C8_Step ==
    CallStep =>
        LET s == nodes[Tip]
            w == last'.work
            n == Len(s.players)
            ends == EndsTurn(s.card_play + 1, n)
            wraps == ends /\ s.active_player_index = n - 1
        IN  /\ \A k \in DOMAIN nodes : Turn(nodes'[k]) = Turn(nodes[k])
            /\ last'.r # "" => Turn(w) = Turn(s)
            /\ last'.r = "" =>
                   /\ w.card_play = s.card_play + 1
                   /\ w.active_player_index =
                          (IF ~ends THEN s.active_player_index
                           ELSE IF wraps THEN 0 ELSE s.active_player_index + 1)
                   /\ w.round = (IF wraps THEN s.round + 1 ELSE s.round)

C8_TurnRotation == [](C8_State) /\ [][C8_Step]_vars

\* C8 witness: at a table of more than one player, in a round after round 0,
\* the last player's second play succeeded: the index wrapped to player 0 and
\* the round went up by 1.
C8_Witness ==
    /\ pc = "returned"
    /\ last.r = ""
    /\ Len(Parent.players) > 1
    /\ Parent.round > 0
    /\ Parent.active_player_index = Len(Parent.players) - 1
    /\ last.work.active_player_index = 0
    /\ last.work.round = Parent.round + 1

-----------------------------------------------------------------------------
(* Properties of the supervisor, checked under SpecComplete *)

\* C11: complete_game started on a new single-player game ends either by
\* returning a state whose round is 8 or with the stuck-state error, and with
\* no other error.
C11_ReturnsOrStuck ==
    /\ pc \in {"loop", "returned", "stuck"}
    /\ pc = "returned" => nodes[Tip].round = LastRound

-----------------------------------------------------------------------------
(* Properties of single commands, checked under Spec *)

\* The active player of a state
ActivePlayer(s) == s.players[s.active_player_index + 1]

\* The last command was sent by the player whose turn it was
InTurn == last.action.player_id = ActivePlayer(Parent).player_id

\* C12: a loan command by the active player with income level >= 3 succeeds,
\* with funds raised by exactly 30 and income level lowered by exactly 3; a loan
\* command by a player with income level below 3 is reported as a failure.
C12_LoanByIncome ==
    (pc # "idle" /\ last.action.main_action = "loan" /\ InTurn) =>
        IF ActivePlayer(Parent).income_level >= 3
        THEN /\ last.r = ""
             /\ ActivePlayer(last.work).money = ActivePlayer(Parent).money + 30
             /\ ActivePlayer(last.work).income_level = ActivePlayer(Parent).income_level - 3
        ELSE last.r # ""

\* Number of units of a kind that a call of spend_resources bought
BoughtUnits(e, resource) ==
    Cardinality({k \in DOMAIN e.spent : e.spent[k] = resource /\ e.sources[k] = "market"})

\* Fill level of a market after n units were bought at fill level `level`
LevelAfterBuying(costs, level, n) == Min({level + n, Len(costs) - 1})

\* Price of n units bought one after the other from fill level `level` on
RECURSIVE PricePaid(_, _, _)
PricePaid(costs, level, n) ==
    IF n = 0 THEN 0
    ELSE costs[level + 1] + PricePaid(costs, LevelAfterBuying(costs, level, 1), n - 1)

\* Money credited for n units sold one after the other from fill level `level` on
RECURSIVE PriceCredited(_, _, _)
PriceCredited(costs, level, n) ==
    IF n = 0 THEN 0
    ELSE costs[(level - 1) + 1] + PriceCredited(costs, level - 1, n - 1)

\* What a tile produces in an age
Production(name, age) ==
    industry_dict[name].coal_production + industry_dict[name].iron_production
    + (IF age = "canal" THEN industry_dict[name].beer_production_canal
                        ELSE industry_dict[name].beer_production_rail)

\* C13: a successful build of tile T by the active player raises the
\* next-buildable index of T's family by exactly 1, debits T's money cost
\* (besides what the resources bought cost and what the units sold bring), and
\* appends exactly one played tile, owned by that player, that starts with T's
\* production; a coal or iron tile sells its units to its market while the fill
\* level is > 0, each unit lowering the fill level by 1 and crediting funds.
C13_Step ==
    (CallStep /\ last'.action.main_action = "build" /\ last'.r = "") =>
        LET s == nodes[Tip]
            w == last'.work
            i == s.active_player_index + 1
            T == last'.action.arguments[1].tile
            f == industry_dict[T].industry
            e == last'.spends[1]
            tile == w.played_industries[Len(w.played_industries)]
            coal == LevelAfterBuying(coal_market_cost, s.coal_market_last_filled,
                                     BoughtUnits(e, "Coal"))
            iron == LevelAfterBuying(iron_market_cost, s.iron_market_last_filled,
                                     BoughtUnits(e, "Iron"))
            sold == Production(T, s.age) - tile.resource_remaining
        IN  /\ w.players[i].industry_next[f] = s.players[i].industry_next[f] + 1
            /\ \A g \in Families \ {f} :
                   w.players[i].industry_next[g] = s.players[i].industry_next[g]
            /\ Len(w.played_industries) = Len(s.played_industries) + 1
            /\ \A t \in DOMAIN s.played_industries :
                   w.played_industries[t].name = s.played_industries[t].name
            /\ tile.name = T
            /\ tile.player = <<Tip + 1, i>>
            /\ w.players[i].player_id = last'.action.player_id
            /\ sold = CASE f = "Coal" -> Min({Production(T, s.age), coal})
                        [] f = "Iron" -> Min({Production(T, s.age), iron})
                        [] OTHER -> 0
            /\ tile.flipped = (sold > 0 /\ tile.resource_remaining = 0)
            /\ w.coal_market_last_filled = coal - (IF f = "Coal" THEN sold ELSE 0)
            /\ w.iron_market_last_filled = iron - (IF f = "Iron" THEN sold ELSE 0)
            /\ w.players[i].money =
                   s.players[i].money - industry_dict[T].money_cost
                   - PricePaid(coal_market_cost, s.coal_market_last_filled,
                               BoughtUnits(e, "Coal"))
                   - PricePaid(iron_market_cost, s.iron_market_last_filled,
                               BoughtUnits(e, "Iron"))
                   + (CASE f = "Coal" -> PriceCredited(coal_market_cost, coal, sold)
                        [] f = "Iron" -> PriceCredited(iron_market_cost, iron, sold)
                        [] OTHER -> 0)

C13_BuildEffects == [][C13_Step]_vars

\* C13 witness: Coal0 built from the initial state (funds 36, coal market fill
\* level 1): the index of Coal is 1, the one unit produced was sold, the fill
\* level is 0 and the funds are 36 - 5 + 1.
C13_Witness ==
    /\ pc = "returned"
    /\ last.r = ""
    /\ last.action.main_action = "build"
    /\ last.action.arguments[1].tile = "Coal0"
    /\ Parent = Game_State
    /\ last.work.players[1].industry_next["Coal"] = 1
    /\ Len(last.work.played_industries) = 1
    /\ last.work.played_industries[1].resource_remaining = 0
    /\ last.work.coal_market_last_filled = 0
    /\ last.work.players[1].money = 32

\* C13 witness: a tile that sells nothing was built and holds its production
C13_WitnessKept ==
    /\ pc = "returned"
    /\ last.r = ""
    /\ last.action.main_action = "build"
    /\ last.work.played_industries[Len(last.work.played_industries)].resource_remaining > 0

\* The arguments of the last command that name a tile with development_restriction
Restricted(action) ==
    {k \in DOMAIN action.arguments :
        /\ action.arguments[k].tile \in TileNames
        /\ industry_dict[action.arguments[k].tile].development_restriction}

C14_Step ==
    (CallStep /\ last'.action.main_action = "develop"
       /\ last'.action.player_id = ActivePlayer(nodes[Tip]).player_id) =>
        \A k \in Restricted(last'.action) :
            LET i == nodes[Tip].active_player_index + 1
                T == last'.action.arguments[k].tile
                f == industry_dict[T].industry
                next == nodes[Tip].players[i].industry_next[f]
            IN  /\ last'.r # ""
                /\ (k = 1 /\ industry_dict[T].sequence = next) => last'.r = "cannot develop"
                /\ last'.r = "cannot develop" =>
                       last'.work.players[i].industry_next[f] = next + 1
                /\ last'.r # "cannot develop" =>
                       last'.work.players[i].industry_next[f] = next
                /\ nodes'[Tip].players[i].industry_next[f] = next

-----------------------------------------------------------------------------
(* The action grammar.  A text is a sequence of symbols: the six separators   *)
(* are symbols of their own, a decimal digit is a symbol, and every other     *)
(* symbol stands for a run of characters holding no separator and no digit.   *)
(* A name (tile, location, card, resource, action kind) is a text.            *)

SeparatorSymbols == {":", ".", ";", "<", ">", ","}

DigitSymbols == <<"0", "1", "2", "3", "4", "5", "6", "7", "8", "9">>

\* str(n) for an int n >= 0
RECURSIVE str(_)
str(n) ==
    IF n < 10 THEN <<DigitSymbols[n + 1]>>
    ELSE str(n \div 10) \o <<DigitSymbols[(n % 10) + 1]>>

\* int(text) raises ValueError (texts hold no sign, blank or underscore)
int_raises(text) ==
    \/ text = <<>>
    \/ \E i \in DOMAIN text : \A d \in DOMAIN DigitSymbols : DigitSymbols[d] # text[i]

\* int(text) for a text of digits
RECURSIVE int(_)
int(text) ==
    IF text = <<>> THEN 0
    ELSE 10 * int(SubSeq(text, 1, Len(text) - 1))
         + (CHOOSE d \in 0..9 : DigitSymbols[d + 1] = text[Len(text)])

\* text.split(sep): the pieces between the occurrences of sep, at least one piece
RECURSIVE split(_, _)
split(text, sep) ==
    IF \A i \in DOMAIN text : text[i] # sep THEN <<text>>
    ELSE LET i == Min({j \in DOMAIN text : text[j] = sep})
         IN  <<SubSeq(text, 1, i - 1)>> \o split(SubSeq(text, i + 1, Len(text)), sep)

\* sep.join(list)
RECURSIVE join(_, _)
join(list, sep) ==
    IF list = <<>> THEN <<>>
    ELSE IF Len(list) = 1 THEN list[1]
    ELSE list[1] \o <<sep>> \o join(Tail(list), sep)

\* replace that removes nothing
replace_nothing(text, symbol) == text

\* text.replace(symbol, "")
replace(text, symbol) == SelectSeq(text, LAMBDA x : x # symbol)

\* Action_Argument.make_resource_string
make_resource_string(resource_list) ==
    IF resource_list # <<>> THEN <<"<">> \o join(resource_list, ",") \o <<">">> ELSE <<>>

Action_Argument_Build(tile_name, location, resources) ==
    [tile |-> tile_name, location |-> location, resources |-> resources,
     argument_string |-> tile_name \o <<".">> \o location \o make_resource_string(resources)]

Action_Argument_Network(from_location, to_location, resources) ==
    [from_location |-> from_location, to_location |-> to_location, resources |-> resources,
     argument_string |->
         from_location \o <<".">> \o to_location \o make_resource_string(resources)]

Action_Argument_Develop(tile_name, resources) ==
    [tile |-> tile_name, resources |-> resources,
     argument_string |-> tile_name \o make_resource_string(resources)]

Action_Argument_Sell(tile_name, location, resources) ==
    [tile |-> tile_name, location |-> location, resources |-> resources,
     argument_string |-> tile_name \o <<".">> \o location \o make_resource_string(resources)]

Action_Argument_Scout(card) ==
    [card |-> card, resources |-> <<>>, argument_string |-> card]

\* [arg.argument_string for arg in action_arguments_list]
RECURSIVE argument_strings(_)
argument_strings(action_arguments_list) ==
    IF action_arguments_list = <<>> THEN <<>>
    ELSE <<Head(action_arguments_list).argument_string>>
         \o argument_strings(Tail(action_arguments_list))

\* Action.__init__ with the text it builds (main.py:554)
Action_init(card_play, player_id, card, main_action, action_arguments_list) ==
    [card_play |-> card_play, player_id |-> player_id, used_card |-> card,
     main_action |-> main_action, arguments |-> action_arguments_list,
     action_string |->
         str(card_play) \o <<".">> \o str(player_id) \o <<".">> \o main_action \o <<".">>
         \o card \o <<":">> \o join(argument_strings(action_arguments_list), ";")]

\* What a parser gives: a value, or the ValueError it raised
Parsed(value) == [raised |-> FALSE, value |-> value]

ValueError == [raised |-> TRUE, value |-> <<>>]

\* parse_action_argment_string once argument_left and resource_list are known
typed_argument(argument_left, resource_list, main_action) ==
    CASE main_action \in {<<"build">>, <<"network">>, <<"sell">>} ->
             IF Len(split(argument_left, ".")) # 2 THEN ValueError
             ELSE IF main_action = <<"build">>
             THEN Parsed(Action_Argument_Build(split(argument_left, ".")[1],
                                               split(argument_left, ".")[2], resource_list))
             ELSE IF main_action = <<"network">>
             THEN Parsed(Action_Argument_Network(split(argument_left, ".")[1],
                                                 split(argument_left, ".")[2], resource_list))
             ELSE Parsed(Action_Argument_Sell(split(argument_left, ".")[1],
                                              split(argument_left, ".")[2], resource_list))
      [] main_action = <<"develop">> ->
             Parsed(Action_Argument_Develop(argument_left, resource_list))
      [] main_action = <<"scout">> -> Parsed(Action_Argument_Scout(argument_left))
      [] OTHER -> ValueError

\* parse_action_argment_string
parse_action_argment_string(argument_string, main_action) ==
    IF \E i \in DOMAIN argument_string : argument_string[i] = "<"
    THEN IF Len(split(replace(argument_string, ">"), "<")) # 2 THEN ValueError
         ELSE typed_argument(split(replace(argument_string, ">"), "<")[1],
                             split(split(replace(argument_string, ">"), "<")[2], ","),
                             main_action)
    ELSE typed_argument(argument_string, <<>>, main_action)

\* The for-loop of parse_action_string from the k-th piece of right_side on
RECURSIVE parse_arguments(_, _, _, _)
parse_arguments(pieces, k, main_action, action_arguments_list) ==
    IF k > Len(pieces) THEN Parsed(action_arguments_list)
    ELSE IF pieces[k] = <<>>
    THEN parse_arguments(pieces, k + 1, main_action, action_arguments_list)
    ELSE IF parse_action_argment_string(pieces[k], main_action).raised THEN ValueError
    ELSE parse_arguments(pieces, k + 1, main_action,
             Append(action_arguments_list,
                    parse_action_argment_string(pieces[k], main_action).value))

\* parse_action_string once left_side is split into its four pieces
parse_header(header, arguments) ==
    IF arguments.raised THEN ValueError
    ELSE IF int_raises(header[1]) \/ int_raises(header[2]) THEN ValueError
    ELSE Parsed(Action_init(int(header[1]), int(header[2]), header[4], header[3],
                            arguments.value))

\* parse_action_string
parse_action_string(text) ==
    IF Len(split(text, ":")) # 2 THEN ValueError
    ELSE IF Len(split(split(text, ":")[1], ".")) # 4 THEN ValueError
    ELSE parse_header(split(split(text, ":")[1], "."),
                      parse_arguments(split(split(text, ":")[2], ";"), 1,
                                      split(split(text, ":")[1], ".")[3], <<>>))

\* Action_Parsed.__init__: the same splits, the text kept as given
Action_Parsed(text) ==
    IF Len(split(text, ":")) # 2 THEN ValueError
    ELSE IF Len(split(split(text, ":")[1], ".")) # 4 THEN ValueError
    ELSE IF int_raises(split(split(text, ":")[1], ".")[1])
            \/ int_raises(split(split(text, ":")[1], ".")[2]) THEN ValueError
    ELSE IF parse_arguments(split(split(text, ":")[2], ";"), 1,
                            split(split(text, ":")[1], ".")[3], <<>>).raised THEN ValueError
    ELSE Parsed([card_play |-> int(split(split(text, ":")[1], ".")[1]),
                 player_id |-> int(split(split(text, ":")[1], ".")[2]),
                 used_card |-> split(split(text, ":")[1], ".")[4],
                 main_action |-> split(split(text, ":")[1], ".")[3],
                 arguments |-> parse_arguments(split(split(text, ":")[2], ";"), 1,
                                               split(split(text, ":")[1], ".")[3],
                                               <<>>).value,
                 action_string |-> text])

-----------------------------------------------------------------------------
(* The grammar on its own: a command is constructed (which encodes it), the    *)
(* text may lose one separator on its way, and the text is decoded.            *)

\* Longest resource list of an argument
MaxResources == 2

ImplementedKinds == {<<"build">>, <<"network">>, <<"develop">>, <<"sell">>, <<"loan">>}

KnownKinds == ImplementedKinds \cup {<<"scout">>, <<"pass">>}

\* The kinds of the texts explored: the known ones and one that is not
GrammarKinds == KnownKinds \cup {<<"trade">>}

\* Tile names: one from the catalog and the empty name
TileTokens == {<<"Coal0">>, <<>>}

\* The resource lists of up to MaxResources entries
ResourceLists ==
    UNION {[1..n -> {<<"Coal">>, <<"Iron">>}] : n \in 0..MaxResources}

\* The arguments explored, by action kind (a text of a kind without arguments
\* can carry some all the same)
GrammarArguments(main_action) ==
    CASE main_action = <<"build">> ->
             {Action_Argument_Build(t, <<"@Unknown0">>, r) :
                 t \in TileTokens, r \in ResourceLists}
      [] main_action = <<"network">> ->
             {Action_Argument_Network(<<"@Unknown0">>, <<"@Unknown1">>, r) :
                 r \in ResourceLists}
      [] main_action = <<"develop">> ->
             {Action_Argument_Develop(t, r) : t \in TileTokens, r \in ResourceLists}
      [] main_action = <<"sell">> ->
             {Action_Argument_Sell(t, <<"$Unknown0">>, r) :
                 t \in TileTokens, r \in ResourceLists}
      [] main_action = <<"scout">> -> {Action_Argument_Scout(<<"card">>)}
      [] OTHER -> {Action_Argument_Develop(<<"Coal0">>, <<>>)}

\* No argument, one, or two
GrammarArgumentLists(main_action) ==
    {<<>>}
    \cup {<<a>> : a \in GrammarArguments(main_action)}
    \cup {<<a, b>> : a \in GrammarArguments(main_action), b \in GrammarArguments(main_action)}

\* The experiment: the arguments of Action(...), the command built from them,
\* the text on its way, and what the two decoders made of it
NoText ==
    [op |-> "None", input |-> <<>>, cmd |-> NoAction, text |-> <<>>, intact |-> TRUE,
     parsed |-> ValueError, action_parsed |-> ValueError]

\* The arguments of one call of Action(...)
InitGrammar ==
    /\ nodes = <<Game_State>>
    /\ game = 1
    /\ pc = "grammar"
    /\ last = NoCall
    /\ mutations = 0
    /\ \E card_play \in {0, 10}, player_id \in {0, 1}, card \in {<<"Unknown">>, <<>>, <<"Wild", ".", "0">>},
          main_action \in GrammarKinds :
         \E action_arguments_list \in GrammarArgumentLists(main_action) :
           unit = [NoText EXCEPT !.input = <<card_play, player_id, card, main_action,
                                             action_arguments_list>>]

\* Action(card_play, player_id, card, main_action, action_arguments_list)
Encode ==
    /\ pc = "grammar"
    /\ LET cmd == Action_init(unit.input[1], unit.input[2], unit.input[3], unit.input[4],
                              unit.input[5])
       IN  unit' = [unit EXCEPT !.op = "Action", !.cmd = cmd, !.text = cmd.action_string]
    /\ pc' = "encoded"
    /\ UNCHANGED <<nodes, game, last, mutations>>

\* The text loses its k-th symbol, a ':' or a '.'
Damage(k) ==
    /\ pc = "encoded"
    /\ unit.text[k] \in {":", "."}
    /\ unit' = [unit EXCEPT !.text = SubSeq(@, 1, k - 1) \o SubSeq(@, k + 1, Len(@)),
                            !.intact = FALSE]
    /\ pc' = "damaged"
    /\ UNCHANGED <<nodes, game, last, mutations>>

\* parse_action_string(text) and Action_Parsed(text)
Decode ==
    /\ pc \in {"encoded", "damaged"}
    /\ unit' = [unit EXCEPT !.op = "parse_action_string",
                            !.parsed = parse_action_string(unit.text),
                            !.action_parsed = Action_Parsed(unit.text)]
    /\ pc' = "decoded"
    /\ UNCHANGED <<nodes, game, last, mutations>>

NextGrammar ==
    \/ Encode
    \/ \E k \in DOMAIN unit.text : Damage(k)
    \/ Decode

SpecGrammar == InitGrammar /\ [][NextGrammar]_vars

-----------------------------------------------------------------------------
(* Properties of the grammar, checked under SpecGrammar *)

\* The names an argument is made of
NamesOf(argument) ==
    {argument[f] : f \in DOMAIN argument \ {"resources", "argument_string"}}
    \cup {argument.resources[i] : i \in DOMAIN argument.resources}

SeparatorFree(name) == \A i \in DOMAIN name : name[i] \notin SeparatorSymbols

\* A command the text can carry: no name holds a separator, no argument is the
\* empty text, and a loan has no argument
Representable(input) ==
    /\ SeparatorFree(input[3])
    /\ SeparatorFree(input[4])
    /\ \A k \in DOMAIN input[5] :
           /\ input[5][k].argument_string # <<>>
           /\ \A name \in NamesOf(input[5][k]) : SeparatorFree(name)
    /\ input[4] = <<"loan">> => input[5] = <<>>

\* C15: for every representable command of the five implemented kinds, decoding
\* the text that encoding it produced yields a command equal to it in card-play
\* number, player id, card, action kind and ordered argument list, the order of
\* the resources inside each argument included.
C15_RoundTrip ==
    (/\ pc = "decoded"
     /\ unit.intact
     /\ unit.input[4] \in ImplementedKinds
     /\ Representable(unit.input)) =>
        /\ ~unit.parsed.raised
        /\ unit.parsed.value.card_play = unit.input[1]
        /\ unit.parsed.value.player_id = unit.input[2]
        /\ unit.parsed.value.used_card = unit.input[3]
        /\ unit.parsed.value.main_action = unit.input[4]
        /\ unit.parsed.value.arguments = unit.input[5]
        /\ unit.parsed.value.action_string = unit.text

\* C15 witness: a build of two arguments, one with its resources in the order
\* Iron, Coal, came back from its text as it was.
C15_Witness ==
    /\ pc = "decoded"
    /\ unit.intact
    /\ unit.input[4] = <<"build">>
    /\ Len(unit.input[5]) = 2
    /\ unit.input[5][2].resources = <<<<"Iron">>, <<"Coal">>>>
    /\ ~unit.parsed.raised
    /\ unit.parsed.value.arguments = unit.input[5]

\* The part of a text before its first ':'
Header(text) == SubSeq(text, 1, Min({k \in DOMAIN text : text[k] = ":"}) - 1)

\* The text lacks the ':', lacks one of the three '.' of its header, or names a
\* kind that is not one of the seven
Malformed ==
    \/ Count(unit.text, ":") = 0
    \/ Count(unit.text, ":") > 0 /\ Count(Header(unit.text), ".") < 3
    \/ unit.intact /\ unit.input[4] \notin KnownKinds

\* C16: decoding rejects with a parse error every text that lacks the ':',
\* lacks one of the three '.' of the header, or names an action kind outside
\* the seven known ones, with or without arguments.
C16_RejectsMalformed ==
    (pc = "decoded" /\ Malformed) => (unit.parsed.raised /\ unit.action_parsed.raised)

-----------------------------------------------------------------------------
(* Properties of the lineage, checked under SpecTurn *)

\* The state reached from node n by following k parent links (NoParent: the
\* links end before)
RECURSIVE Ancestor(_, _)
Ancestor(n, k) ==
    IF k = 0 \/ n = NoParent THEN n ELSE Ancestor(nodes[n].parent, k - 1)

\* C17: every state produced by take_action_copy has as parent the state the
\* command was applied to and as previous_action the applied command; in a
\* lineage of successful commands from a root with card-play count 0, the
\* parent links of a state with card-play count c reach the root after exactly
\* c steps, and the ancestor after k <= c steps has card-play count c - k.
C17_State ==
    \A n \in DOMAIN nodes :
        /\ \A k \in 0..nodes[n].card_play :
               /\ Ancestor(n, k) # NoParent
               /\ nodes[Ancestor(n, k)].card_play = nodes[n].card_play - k
        /\ nodes[Ancestor(n, nodes[n].card_play)].parent = NoParent
        /\ nodes[n].parent # NoParent =>
               /\ nodes[n].previous_action.card_play = nodes[nodes[n].parent].card_play
               /\ nodes[n].previous_action.player_id
                      = ActivePlayer(nodes[nodes[n].parent]).player_id

C17_Step ==
    CallStep =>
        /\ last'.work.parent = Tip
        /\ last'.work.previous_action = last'.action
        /\ last'.r = "" => last'.work.card_play = nodes[Tip].card_play + 1

C17_Lineage == [](C17_State) /\ [][C17_Step]_vars

\* C17 witness: a state with card-play count 3 is held; two links back is the
\* state with count 1, three links back the root.
C17_Witness ==
    \E n \in DOMAIN nodes :
        /\ nodes[n].card_play = 3
        /\ nodes[Ancestor(n, 2)].card_play = 1
        /\ nodes[Ancestor(n, 3)].parent = NoParent
        /\ nodes[n].previous_action.main_action = "network"

-----------------------------------------------------------------------------
(* Properties of the candidate list, checked under SpecComplete *)

\* The families of which the active player of s can still build a tile
Buildable(s) ==
    {f \in Families : ActivePlayer(s).industry_next[f] < Len(industry_layout[f])}

\* The played tiles of s that can still be sold
Sellable(s) ==
    {t \in DOMAIN s.played_industries :
        /\ industry_dict[s.played_industries[t].name].industry_type = "Manufactured"
        /\ ~s.played_industries[t].flipped}

\* The positions of the list holding a command of the kind
OfKind(list, main_action) == {k \in DOMAIN list : list[k].main_action = main_action}

\* C18 for one state
Candidates(s) ==
    LET list == get_untested_actions(s)
    IN  /\ DOMAIN list = OfKind(list, "build") \cup OfKind(list, "loan") \cup OfKind(list, "sell")
        /\ Cardinality(OfKind(list, "build")) = Cardinality(Buildable(s))
        /\ \A f \in Buildable(s) :
               \E k \in OfKind(list, "build") :
                   /\ Len(list[k].arguments) = 1
                   /\ list[k].arguments[1].tile
                          = industry_layout[f][ActivePlayer(s).industry_next[f] + 1]
                   /\ list[k].arguments[1].resources = cost_list(list[k].arguments[1].tile)
        /\ Cardinality(OfKind(list, "loan")) = 1
        /\ Cardinality(OfKind(list, "sell")) = Cardinality(Sellable(s))
        /\ \A t \in Sellable(s) :
               Cardinality({k \in OfKind(list, "sell") :
                               /\ Len(list[k].arguments) = 1
                               /\ list[k].arguments[1].tile = s.played_industries[t].name})
                   = Cardinality({u \in Sellable(s) :
                                     s.played_industries[u].name = s.played_industries[t].name})
        /\ \A k \in DOMAIN list :
               /\ list[k].player_id = ActivePlayer(s).player_id
               /\ list[k].card_play = s.card_play

\* C18: for every state, the candidate list of the active player holds exactly
\* one build per family whose next-buildable index is below the family's tile
\* count (naming that next tile, with the tile's coal/iron cost list as
\* resources), exactly one loan, and one sell per played tile that is
\* Manufactured and not flipped; every candidate carries the active player's id
\* and the state's card-play number.
C18_CandidateList == \A n \in DOMAIN nodes : Candidates(nodes[n])

\* C18 witness: a state of the playout with a family built out, a tile sold and
\* a tile still to sell; its list holds one sell and fewer builds than families.
C18_Witness ==
    /\ pc = "loop"
    /\ Buildable(nodes[Tip]) # Families
    /\ Cardinality(Sellable(nodes[Tip])) = 1
    /\ \E t \in DOMAIN nodes[Tip].played_industries :
           /\ industry_dict[nodes[Tip].played_industries[t].name].industry_type = "Manufactured"
           /\ nodes[Tip].played_industries[t].flipped
    /\ Cardinality(OfKind(get_untested_actions(nodes[Tip]), "sell")) = 1

\* C19: for every state with a legal child, decide_and_perform_action returns
\* the state of a candidate whose application in test mode reported no failure,
\* with the input state as parent and a card-play count one higher; and the
\* second application of the chosen command to the input state, in perform
\* mode, does not fail and makes a state equal to the returned one.
C19_AdvanceAgrees ==
    (pc \in {"loop", "raised"} /\ last # NoCall) =>
        /\ last.work.parent = last.parent
        /\ last.work.card_play = nodes[last.parent].card_play + 1
        /\ \E k \in DOMAIN get_untested_actions(nodes[last.parent]) :
               get_untested_actions(nodes[last.parent])[k] = last.work.previous_action
        /\ (unit.record /\ ~unit.test_mode) =>
               /\ ~last.raised
               /\ last.r = ""
               /\ unit.again = last.work

-----------------------------------------------------------------------------
(* Commands sent out of turn, checked under Spec *)

\* C20: a command whose acting-player id is not the id of the state's active
\* player fails before any dispatch: the working copy's players (funds, score,
\* income, next-buildable indices), market levels, played tiles, played links,
\* round, card-play count and active player are those of the state the command
\* was applied to; only the recorded previous command (and the parent link of
\* the copy) is set, no resource is spent, and the states held are unchanged.
C20_Step ==
    (CallStep /\ last'.action.player_id # ActivePlayer(nodes[Tip]).player_id) =>
        /\ last'.r # ""
        /\ last'.work = [nodes[Tip] EXCEPT !.parent = Tip, !.previous_action = last'.action]
        /\ last'.spends = <<>>
        /\ nodes' = nodes

C20_OutOfTurnFails == [][C20_Step]_vars

\* C20 witness: a build sent by another player to a state that holds a played
\* tile was refused, and the working copy holds what the state holds.
C20_Witness ==
    /\ pc = "returned"
    /\ last.action.main_action = "build"
    /\ last.action.player_id # ActivePlayer(Parent).player_id
    /\ last.r # ""
    /\ Parent.played_industries # <<>>
    /\ last.work.played_industries = Parent.played_industries
    /\ last.work.players = Parent.players
    /\ last.work.card_play = Parent.card_play

-----------------------------------------------------------------------------
(* Properties of the branches of a command, checked under Spec *)

\* The last command is of the kind and was sent by the player whose turn it was
Applied(main_action) ==
    pc # "idle" /\ last.action.main_action = main_action /\ InTurn

\* The last command is a build of a tile restricted to an age that is not the
\* age of the state
BuildOutOfAge ==
    /\ Applied("build")
    /\ industry_dict[last.action.arguments[1].tile].age_restriction \notin {"", Parent.age}

\* The board, the markets and the links of the working copy are the state's
BoardUntouched ==
    /\ last.work.played_industries = Parent.played_industries
    /\ last.work.played_links = Parent.played_links
    /\ last.work.coal_market_last_filled = Parent.coal_market_last_filled
    /\ last.work.iron_market_last_filled = Parent.iron_market_last_filled

\* C21 as stated: a build of a tile whose age restriction differs from the age
\* fails, with the family's index advanced by 1 and the money cost debited on
\* the working copy, no tile appended, no resource spent, the turn counters not
\* advanced.
C21_Unconditional ==
    BuildOutOfAge =>
        LET T == industry_dict[last.action.arguments[1].tile]
        IN  /\ last.r # ""
            /\ ActivePlayer(last.work).industry_next[T.industry]
                   = ActivePlayer(Parent).industry_next[T.industry] + 1
            /\ ActivePlayer(last.work).money = ActivePlayer(Parent).money - T.money_cost
            /\ BoardUntouched
            /\ last.spends = <<>>
            /\ Turn(last.work) = Turn(Parent)

\* C21: a build of a tile whose age restriction differs from the age fails, no
\* tile is appended, no resource is spent and the turn counters are not
\* advanced; when the tile is the next of its family, the index is advanced by
\* 1 and the money cost debited on the working copy (the test of the age comes
\* after the player's steps); when it is not, neither is changed.
C21_AgeRestrictedBuildFails ==
    BuildOutOfAge =>
        LET T == industry_dict[last.action.arguments[1].tile]
            next == ActivePlayer(Parent).industry_next[T.industry]
        IN  /\ last.r # ""
            /\ BoardUntouched
            /\ last.spends = <<>>
            /\ Turn(last.work) = Turn(Parent)
            /\ IF T.sequence = next
               THEN /\ ActivePlayer(last.work).industry_next[T.industry] = next + 1
                    /\ ActivePlayer(last.work).money
                           = ActivePlayer(Parent).money - T.money_cost
               ELSE /\ ActivePlayer(last.work).industry_next[T.industry] = next
                    /\ ActivePlayer(last.work).money = ActivePlayer(Parent).money

\* C21 witness: Shed0 (rail) was refused for its age in the canal age; the
\* index of Shed is 1 and the 12 of its cost are gone from the working copy.
C21_Witness ==
    /\ BuildOutOfAge
    /\ last.action.arguments[1].tile = "Shed0"
    /\ last.r = "cannot build in this age"
    /\ ActivePlayer(Parent).industry_next["Shed"] = 0
    /\ ActivePlayer(last.work).industry_next["Shed"] = 1
    /\ ActivePlayer(last.work).money = ActivePlayer(Parent).money - 12

\* Money for n units sold one after the other from fill level `level` on, each
\* paid the price at the fill level in effect before it is lowered
RECURSIVE PriceBeforeDecrement(_, _, _)
PriceBeforeDecrement(costs, level, n) ==
    IF n = 0 THEN 0
    ELSE costs[level + 1] + PriceBeforeDecrement(costs, level - 1, n - 1)

\* The last command is a successful build of a coal or iron tile
BuiltProducer ==
    /\ Applied("build")
    /\ last.r = ""
    /\ industry_dict[last.action.arguments[1].tile].industry \in {"Coal", "Iron"}

\* C22: a newly built coal or iron tile sells min(production, fill level before
\* the sale) units to its market; each unit lowers the fill level by exactly 1
\* and credits the seller with the price at the fill level in effect before
\* that unit's decrement.
C22_AutoSellPrice ==
    BuiltProducer =>
        LET T == last.action.arguments[1].tile
            f == industry_dict[T].industry
            costs == IF f = "Coal" THEN coal_market_cost ELSE iron_market_cost
            e == last.spends[1]
            coal == LevelAfterBuying(coal_market_cost, Parent.coal_market_last_filled,
                                     BoughtUnits(e, "Coal"))
            iron == LevelAfterBuying(iron_market_cost, Parent.iron_market_last_filled,
                                     BoughtUnits(e, "Iron"))
            level == IF f = "Coal" THEN coal ELSE iron
            tile == last.work.played_industries[Len(last.work.played_industries)]
            sold == Production(T, Parent.age) - tile.resource_remaining
        IN  /\ sold = Min({Production(T, Parent.age), level})
            /\ last.work.coal_market_last_filled = coal - (IF f = "Coal" THEN sold ELSE 0)
            /\ last.work.iron_market_last_filled = iron - (IF f = "Iron" THEN sold ELSE 0)
            /\ ActivePlayer(last.work).money =
                   ActivePlayer(Parent).money - industry_dict[T].money_cost
                   - PricePaid(coal_market_cost, Parent.coal_market_last_filled,
                               BoughtUnits(e, "Coal"))
                   - PricePaid(iron_market_cost, Parent.iron_market_last_filled,
                               BoughtUnits(e, "Iron"))
                   + PriceBeforeDecrement(costs, level, sold)

-----------------------------------------------------------------------------
(* A game some tiles into it: up to MaxTiles builds were performed and kept    *)
(* one after the other (main.py:877-879), and one command is applied to the    *)
(* newest state.  Game_State.age is "canal" from __init__ on and no statement  *)
(* assigns it; the branches of the rail age are run on a newest state whose    *)
(* age field was set by the caller.                                            *)

\* The builds of the active player among the commands for state s
BuildCommands(s) ==
    {a \in Commands(s) : a.main_action = "build" /\ a.player_id = s.active_player_index}

\* The lists of states held after up to n more successful builds, each performed
\* on the newest state and kept: GamesFrom(h, n), and Kept(c, n) for those that
\* go on from the call that left the context c
RECURSIVE GamesFrom(_, _)
Kept(c, n) == IF c.r = "" THEN GamesFrom(c.h, n) ELSE {}

GamesFrom(h, n) ==
    {h} \cup
    (IF n = 0 THEN {}
     ELSE UNION {Kept(take_action_copy(h, Len(h), Len(h), a, FALSE), n - 1) :
                 a \in BuildCommands(h[Len(h)])})

\* The markets of the newest state: as the builds left them, or with one step
\* left before the last index of the price tables (a game many purchases later)
Scarce(s) ==
    [s EXCEPT !.coal_market_last_filled = Len(coal_market_cost) - 2,
              !.iron_market_last_filled = Len(iron_market_cost) - 2]

InitBoard ==
    /\ \E h \in GamesFrom(<<Game_State>>, MaxTiles), age \in Ages, scarce \in BOOLEAN :
           /\ nodes = [h EXCEPT ![Len(h)] = [(IF scarce THEN Scarce(@) ELSE @)
                                                EXCEPT !.age = age]]
           /\ game = Len(h)
    /\ pc = "idle"
    /\ last = NoCall
    /\ mutations = 0
    /\ unit = 0

NextBoard ==
    \/ \E action \in Commands(nodes[Tip]), test_mode \in BOOLEAN : Call(action, test_mode)
    \/ Discard

SpecBoard == InitBoard /\ [][NextBoard]_vars

-----------------------------------------------------------------------------
(* Properties of the resource ledger, checked under SpecBoard *)

Max(a, b) == IF a >= b THEN a ELSE b

\* The units spent by the calls of spend_resources of a command, one after the
\* other, and where each came from
RECURSIVE AllSpent(_)
AllSpent(spends) ==
    IF spends = <<>> THEN <<>> ELSE Head(spends).spent \o AllSpent(Tail(spends))

RECURSIVE AllSources(_)
AllSources(spends) ==
    IF spends = <<>> THEN <<>> ELSE Head(spends).sources \o AllSources(Tail(spends))

RECURSIVE AllLocations(_)
AllLocations(spends) ==
    IF spends = <<>> THEN <<>> ELSE Head(spends).locations \o AllLocations(Tail(spends))

\* What the tiles of the family before the t-th hold together
RECURSIVE SupplyBefore(_, _, _)
SupplyBefore(board, family, t) ==
    IF t <= 1 THEN 0
    ELSE SupplyBefore(board, family, t - 1)
         + (IF industry_dict[board[t - 1].name].industry = family
            THEN board[t - 1].resource_remaining ELSE 0)

Supply(board, family) == SupplyBefore(board, family, Len(board) + 1)

\* The units of the kind that came from the source among the first n units
UnitsFrom(spent, sources, kind, source, n) ==
    Cardinality({j \in 1..n : spent[j] = kind /\ sources[j] = source})

\* What a command costs besides its resources when it gets to the ledger
FixedCost(s, action) ==
    CASE action.main_action = "build" -> industry_dict[action.arguments[1].tile].money_cost
      [] action.main_action = "network" ->
             (IF s.age = "canal" THEN 3 ELSE IF Len(action.arguments) = 1 THEN 5 ELSE 15)
      [] OTHER -> 0

\* C23: for each unit requested from spend_resources, if some played tile has
\* the matching family and remaining-production > 0 the unit is taken from the
\* first such tile in construction order, and the buyer's funds and both market
\* fill levels are unchanged; only when there is none is the unit bought from
\* the market, debiting the buyer the price at the current fill level and then
\* raising that fill level by 1, clamped at the last index of its price table.
\* A unit is left unprocessed only after a unit that could not be had or paid.
\* (Funds and fill levels are compared for the commands that sell nothing to
\* the market.)
C23_Step ==
    (CallStep /\ last'.spends # <<>>) =>
        LET spent   == AllSpent(last'.spends)
            sources == AllSources(last'.spends)
            asked   == AllLocations(last'.spends)
            before  == nodes[Tip]
            after   == IF last'.action.main_action = "develop" THEN nodes'[game]
                                                               ELSE last'.work
            board   == before.played_industries
            coal    == UnitsFrom(spent, sources, "Coal", "market", Len(spent))
            iron    == UnitsFrom(spent, sources, "Iron", "market", Len(spent))
        IN  /\ \A k \in DOMAIN spent : spent[k] = asked[k]
            /\ Len(spent) < Len(asked) =>
                   \/ ActivePlayer(last'.work).money < 0
                   \/ /\ asked[Len(spent) + 1] \notin {"Coal", "Iron"}
                      /\ UnitsFrom(spent, sources, asked[Len(spent) + 1], "board", Len(spent))
                             >= Supply(board, asked[Len(spent) + 1])
            /\ \A k \in DOMAIN spent :
                   sources[k] = "board" <=>
                       UnitsFrom(spent, sources, spent[k], "board", k - 1)
                           < Supply(board, spent[k])
            /\ \A k \in DOMAIN spent : sources[k] = "market" => spent[k] \in {"Coal", "Iron"}
            /\ \A t \in DOMAIN board :
                   after.played_industries[t].resource_remaining =
                       Max(0, board[t].resource_remaining
                              - Max(0, UnitsFrom(spent, sources,
                                                 industry_dict[board[t].name].industry,
                                                 "board", Len(spent))
                                       - SupplyBefore(board,
                                                      industry_dict[board[t].name].industry,
                                                      t)))
            /\ ~(last'.action.main_action = "build" /\ last'.r = ""
                 /\ industry_dict[last'.action.arguments[1].tile].industry
                        \in {"Coal", "Iron"}) =>
                   /\ after.coal_market_last_filled =
                          LevelAfterBuying(coal_market_cost, before.coal_market_last_filled,
                                           coal)
                   /\ after.iron_market_last_filled =
                          LevelAfterBuying(iron_market_cost, before.iron_market_last_filled,
                                           iron)
                   /\ ActivePlayer(last'.work).money =
                          ActivePlayer(before).money - FixedCost(before, last'.action)
                          - PricePaid(coal_market_cost, before.coal_market_last_filled, coal)
                          - PricePaid(iron_market_cost, before.iron_market_last_filled, iron)

C23_WitnessClamped ==
    /\ pc = "returned"
    /\ last.r = ""
    /\ last.action.main_action = "develop"
    /\ AllSpent(last.spends) = <<"Iron", "Iron">>
    /\ AllSources(last.spends) = <<"market", "market">>
    /\ last.work.iron_market_last_filled = Len(iron_market_cost) - 2
    /\ nodes[game].iron_market_last_filled = Len(iron_market_cost) - 1
    /\ ActivePlayer(last.work).money =
           starting_money - iron_market_cost[Len(iron_market_cost) - 1]
                          - iron_market_cost[Len(iron_market_cost)]

\* The last command, sent in turn, asks the ledger of the working copy for a
\* unit that is neither coal nor iron at a moment when no played tile of that
\* family holds a unit (the units of the kind asked before it took what the
\* board held)
AsksUnavailable ==
    /\ pc # "idle"
    /\ InTurn
    /\ last.action.main_action # "develop"
    /\ \E k \in DOMAIN AllLocations(last.spends) :
           LET asked == AllLocations(last.spends)
           IN  /\ asked[k] \notin {"Coal", "Iron"}
               /\ Cardinality({j \in 1..(k - 1) : asked[j] = asked[k]})
                      >= Supply(Parent.played_industries, asked[k])

-----------------------------------------------------------------------------
(* Properties of the branches of a command, checked under SpecBoard *)

\* C25: a successful develop command with k arguments advances the named
\* families' next-buildable indices by k in total, debits no tile money cost,
\* and consumes exactly k units of iron from the board producers or the iron
\* market of the working copy, the state the command produces; the states held
\* (their iron market level, their played tiles) are untouched.
C25_Step ==
    (/\ CallStep
     /\ last'.action.main_action = "develop"
     /\ last'.action.player_id = ActivePlayer(nodes[Tip]).player_id
     /\ last'.r = "") =>
        LET s       == nodes[Tip]
            w       == last'.work
            k       == Len(last'.action.arguments)
            spent   == AllSpent(last'.spends)
            sources == AllSources(last'.spends)
            iron    == UnitsFrom(spent, sources, "Iron", "market", Len(spent))
            taken   == UnitsFrom(spent, sources, "Iron", "board", Len(spent))
        IN  /\ SumOver(Families, [f \in Families |->
                           ActivePlayer(w).industry_next[f]
                           - ActivePlayer(s).industry_next[f]]) = k
            /\ spent = Repeat("Iron", k)
            /\ ActivePlayer(w).money =
                   ActivePlayer(s).money
                   - PricePaid(iron_market_cost, s.iron_market_last_filled, iron)
            /\ w.iron_market_last_filled =
                   LevelAfterBuying(iron_market_cost, s.iron_market_last_filled, iron)
            /\ w.coal_market_last_filled = s.coal_market_last_filled
            /\ Supply(w.played_industries, "Iron")
                   = Supply(s.played_industries, "Iron") - taken
            /\ nodes' = nodes

C25_DevelopOnWorkingCopy == [][C25_Step]_vars

\* The played instances of the tile the last command names, in the state it was
\* applied to
Instances ==
    {t \in DOMAIN Parent.played_industries :
        Parent.played_industries[t].name = last.action.arguments[1].tile}

\* The last command is a sell, sent in turn, of a tile that has no played
\* instance, or whose played instance is flipped or is not of manufactured type
SellRefused ==
    /\ Applied("sell")
    /\ \/ Instances = {}
       \/ Parent.played_industries[Min(Instances)].flipped
       \/ industry_dict[last.action.arguments[1].tile].industry_type # "Manufactured"

\* C26: a sell command is reported as a failure, in test mode as well as in
\* perform mode, whenever the named tile has no played instance, or its played
\* instance is already flipped, or the tile is not of manufactured type; the
\* command is not a successful card-play (the turn counters are not advanced).
C26_SellRefused ==
    SellRefused => (last.r # "" /\ Turn(last.work) = Turn(Parent))

\* The tile the last command names: its first played instance, and its owner
\* among the players of a state
NamedInstance == Min(Instances)

OwnerIn(s) == s.players[Parent.played_industries[NamedInstance].player[2]]

\* The last sell got to the ledger, which reported a failure
SellLacksBeer ==
    /\ Applied("sell")
    /\ Instances # {}
    /\ industry_dict[last.action.arguments[1].tile].industry_type = "Manufactured"
    /\ ~Parent.played_industries[NamedInstance].flipped
    /\ last.spends # <<>>
    /\ last.spends[1].r # ""

\* C27: a successful sell command flips exactly one played tile, the named one,
\* adds that tile's score value and income award to its owner (in the state the
\* command produces), and consumes exactly beer-cost units of beer from the
\* board's beer producers; the flip and the award come before the beer is
\* spent: a sell that fails for lack of beer leaves the tile flipped and scored
\* on the working copy.
C27_SellEffects ==
    /\ (Applied("sell") /\ last.r = "") =>
           /\ Instances # {}
           /\ NewlyFlipped(last.work, Parent) = {NamedInstance}
           /\ OwnerIn(last.work).points
                  = OwnerIn(Parent).points + industry_dict[last.action.arguments[1].tile].points
           /\ OwnerIn(last.work).income_level
                  = Min({99, OwnerIn(Parent).income_level
                             + industry_dict[last.action.arguments[1].tile].income_levels})
           /\ AllSpent(last.spends)
                  = Repeat("Beer", industry_dict[last.action.arguments[1].tile].beer_cost)
           /\ \A k \in DOMAIN AllSources(last.spends) : AllSources(last.spends)[k] = "board"
           /\ Supply(last.work.played_industries, "Beer")
                  = Supply(Parent.played_industries, "Beer")
                    - industry_dict[last.action.arguments[1].tile].beer_cost
    /\ SellLacksBeer =>
           /\ last.work.played_industries[NamedInstance].flipped
           /\ OwnerIn(last.work).points
                  = OwnerIn(Parent).points + industry_dict[last.action.arguments[1].tile].points

\* The last command, sent in turn, is a scout, a pass, or of a kind outside the
\* seven known kinds
Unimplemented ==
    /\ pc # "idle"
    /\ InTurn
    /\ last.action.main_action \notin {"build", "network", "develop", "sell", "loan"}

\* C28: every scout command, every pass command and every command of a kind
\* outside the seven known kinds fails when applied by the active player, in
\* any state, and leaves the players, markets, played tiles, played links,
\* round, card-play count and active player of the working copy as they are in
\* the state it was applied to (the copy differs by its parent link and its
\* recorded command only); no resource is spent.
C28_UnimplementedFails ==
    Unimplemented =>
        /\ last.r # ""
        /\ last.raised = ~last.test_mode
        /\ last.work = [Parent EXCEPT !.parent = last.parent,
                                      !.previous_action = last.action]
        /\ last.spends = <<>>

\* C28 witness: a command of the unknown kind "trade" was applied in test mode
\* to a state that holds a played tile, and failed.
C28_Witness ==
    /\ Unimplemented
    /\ pc = "returned"
    /\ last.action.main_action = "trade"
    /\ last.r = "not a valid action"
    /\ Parent.played_industries # <<>>
    /\ last.work.players = Parent.players
    /\ last.work.played_industries = Parent.played_industries
    /\ Turn(last.work) = Turn(Parent)

\* What the ledger was asked by the calls of the last command, call by call
RECURSIVE Asked(_)
Asked(spends) ==
    IF spends = <<>> THEN <<>> ELSE <<Head(spends).locations>> \o Asked(Tail(spends))

\* The tiles of the working copy are those of the state, but for the units the
\* ledger took from producers (a producer left with nothing is flipped)
OnlyProducersConsumed ==
    /\ Len(last.work.played_industries) = Len(Parent.played_industries)
    /\ \A t \in DOMAIN Parent.played_industries :
           LET old    == Parent.played_industries[t]
               new    == last.work.played_industries[t]
               family == industry_dict[old.name].industry
               taken  == Max(0, UnitsFrom(AllSpent(last.spends), AllSources(last.spends),
                                          family, "board", Len(AllSpent(last.spends)))
                                - SupplyBefore(Parent.played_industries, family, t))
           IN  IF old.resource_remaining > 0 /\ taken > 0
               THEN new = [old EXCEPT !.resource_remaining = Max(0, @ - taken),
                                      !.flipped = (old.resource_remaining <= taken)]
               ELSE new = old

\* C29: a successful network command appends exactly one link marker and costs:
\* in the canal age 3 funds and no resource; in the rail age with one argument
\* group 5 funds and one coal; in the rail age with two argument groups 15
\* funds, one coal, and then one coal and one beer, each resource had through
\* the ledger (from the board for nothing, or from the market at its price); it
\* changes no played tile but the producers it takes units from, and no
\* next-buildable index.
C29_NetworkCosts ==
    (Applied("network") /\ last.r = "") =>
        LET spent   == AllSpent(last.spends)
            sources == AllSources(last.spends)
            coal    == UnitsFrom(spent, sources, "Coal", "market", Len(spent))
            groups  == Len(last.action.arguments)
        IN  /\ last.work.played_links = Append(Parent.played_links, "Unknown")
            /\ Parent.age = "rail" => groups \in {1, 2}
            /\ Asked(last.spends) = (CASE Parent.age = "canal" -> <<>>
                                       [] groups = 1 -> << <<"Coal">> >>
                                       [] OTHER -> << <<"Coal">>, <<"Coal", "Beer">> >>)
            /\ spent = AllLocations(last.spends)
            /\ \A k \in DOMAIN spent : spent[k] = "Beer" => sources[k] = "board"
            /\ ActivePlayer(last.work).money =
                   ActivePlayer(Parent).money
                   - (CASE Parent.age = "canal" -> 3 [] groups = 1 -> 5 [] OTHER -> 15)
                   - PricePaid(coal_market_cost, Parent.coal_market_last_filled, coal)
            /\ last.work.coal_market_last_filled =
                   LevelAfterBuying(coal_market_cost, Parent.coal_market_last_filled, coal)
            /\ last.work.iron_market_last_filled = Parent.iron_market_last_filled
            /\ OnlyProducersConsumed
            /\ \A i \in DOMAIN Parent.players :
                   last.work.players[i].industry_next = Parent.players[i].industry_next

\* C29 witness: in the rail age a link of two groups was placed on a board
\* holding Beer0: 15 funds and two coal bought at the prices of the fill levels,
\* the beer taken from Beer0, which is flipped; one link marker more.
C29_Witness ==
    /\ Applied("network")
    /\ pc = "returned"
    /\ last.r = ""
    /\ Parent.age = "rail"
    /\ Len(last.action.arguments) = 2
    /\ Len(Parent.played_industries) = 1
    /\ Parent.played_industries[1].name = "Beer0"
    /\ last.work.played_industries[1].flipped
    /\ AllSpent(last.spends) = <<"Coal", "Coal", "Beer">>
    /\ AllSources(last.spends) = <<"market", "market", "board">>
    /\ ActivePlayer(last.work).money =
           ActivePlayer(Parent).money - 15
           - coal_market_cost[Parent.coal_market_last_filled + 1]
           - coal_market_cost[Parent.coal_market_last_filled + 2]
    /\ last.work.coal_market_last_filled = Parent.coal_market_last_filled + 2
    /\ Len(last.work.played_links) = Len(Parent.played_links) + 1

\* C30: a network command whose number of argument groups is not 1 or 2 (none,
\* or three or more) fails in every age, canal as well as rail, and appends no
\* link marker.
C30_GroupCount ==
    (Applied("network") /\ Len(last.action.arguments) \notin {1, 2}) =>
        /\ last.r # ""
        /\ last.work.played_links = Parent.played_links

-----------------------------------------------------------------------------
(* Properties of whole games, checked under Spec and SpecComplete *)

\* The score values of the tiles of the i-th player that are flipped in state s
ScoreOfFlipped(s, i) ==
    SumOver({t \in DOMAIN s.played_industries :
                 s.played_industries[t].player[2] = i /\ s.played_industries[t].flipped},
            [t \in DOMAIN s.played_industries |->
                 industry_dict[s.played_industries[t].name].points])

\* Every player's score in state s is the sum of the score values of that
\* player's flipped tiles
ScoresAgree(s) == \A i \in DOMAIN s.players : s.players[i].points = ScoreOfFlipped(s, i)

\* C31: when a played tile built in an earlier state flips in a descendant
\* state, its score is added to its owner's account in that same state: in
\* every state held, and in the state a successful command produced, each
\* player's score equals the sum of the score values of that player's tiles
\* that are flipped in that state.
C31_ScoreIsSumOfFlipped ==
    /\ \A n \in DOMAIN nodes : ScoresAgree(nodes[n])
    /\ (pc = "returned" /\ last.r = "") => ScoresAgree(last.work)

\* The last index of a price table
Top(costs) == Len(costs) - 1

\* Both fill levels of state s are indices of their price tables
LevelsInRange(s) ==
    /\ s.coal_market_last_filled \in 0..Top(coal_market_cost)
    /\ s.iron_market_last_filled \in 0..Top(iron_market_cost)

\* What n units bought from fill level `level` on cost when a unit bought at
\* the last index is paid the last price
PriceToTheTop(costs, level, n) ==
    SumOver(1..n, [j \in 1..n |-> costs[Min({level + j - 1, Top(costs)}) + 1]])

C32_State ==
    /\ \A n \in DOMAIN nodes : LevelsInRange(nodes[n])
    /\ pc # "idle" => LevelsInRange(last.work)

\* A command that buys more units than there are steps left to the last index
\* (and sells nothing to the market): the fill level ends at the last index and
\* the units bought there are paid the last price
C32_Step ==
    (/\ CallStep
     /\ last'.spends # <<>>
     /\ ~(/\ last'.action.main_action = "build"
          /\ last'.r = ""
          /\ industry_dict[last'.action.arguments[1].tile].industry \in {"Coal", "Iron"})) =>
        LET spent   == AllSpent(last'.spends)
            sources == AllSources(last'.spends)
            before  == nodes[Tip]
            after   == IF last'.action.main_action = "develop" THEN nodes'[game]
                                                               ELSE last'.work
            coal    == UnitsFrom(spent, sources, "Coal", "market", Len(spent))
            iron    == UnitsFrom(spent, sources, "Iron", "market", Len(spent))
        IN  /\ before.coal_market_last_filled + coal > Top(coal_market_cost) =>
                   after.coal_market_last_filled = Top(coal_market_cost)
            /\ before.iron_market_last_filled + iron > Top(iron_market_cost) =>
                   after.iron_market_last_filled = Top(iron_market_cost)
            /\ (before.coal_market_last_filled + coal > Top(coal_market_cost)
                \/ before.iron_market_last_filled + iron > Top(iron_market_cost)) =>
                   ActivePlayer(last'.work).money =
                       ActivePlayer(before).money - FixedCost(before, last'.action)
                       - PriceToTheTop(coal_market_cost, before.coal_market_last_filled, coal)
                       - PriceToTheTop(iron_market_cost, before.iron_market_last_filled, iron)

\* C32: in every state the coal market fill level is within [0, 14] and the
\* iron market fill level within [0, 10], the indices of the price tables; a
\* purchase at the top level succeeds at the top price and leaves the level
\* unchanged.
C32_LevelsInRange == []C32_State /\ [][C32_Step]_vars

\* C32 witness: Crate0 was built on a state whose coal market is at the last
\* index, 14: the unit of coal was bought at the last price, 8, the fill level
\* is still 14, and the command succeeded.
C32_Witness ==
    /\ pc = "returned"
    /\ last.r = ""
    /\ last.action.main_action = "build"
    /\ last.action.arguments[1].tile = "Crate0"
    /\ Parent.coal_market_last_filled = Top(coal_market_cost)
    /\ AllSources(last.spends) = <<"market", "market">>
    /\ last.work.coal_market_last_filled = Top(coal_market_cost)
    /\ ActivePlayer(last.work).money =
           ActivePlayer(Parent).money - 20
           - coal_market_cost[Top(coal_market_cost) + 1]
           - iron_market_cost[Parent.iron_market_last_filled + 1]

\* The children get_valid_children finds for the newest state
Children == get_valid_children(nodes, Tip, game).children

-----------------------------------------------------------------------------
(* A single-player game played to its last round by commands that touch no     *)
(* tile.  `game` is rebound to each new state (main.py:840, 879); the states    *)
(* before it, which no such command reads, are not held: `nodes` is the state   *)
(* `game` is bound to, and a parent link counts from it.                        *)

InitRounds ==
    /\ nodes = <<Game_State>>
    /\ game = 1
    /\ pc = "idle"
    /\ last = NoCall
    /\ mutations = 0
    /\ unit = 0

\* A command applied while `game.round < 8` (main.py:839)
RoundsCall(action, test_mode) ==
    /\ nodes[Tip].round < LastRound
    /\ Call(action, test_mode)

\* game = the new state
RoundsKeep ==
    /\ pc = "returned"
    /\ last.r = ""
    /\ nodes' = <<last.work>>
    /\ pc' = "idle"
    /\ last' = NoCall
    /\ UNCHANGED <<game, mutations, unit>>

\* The loop of complete_game ends: `return game`
RoundsComplete ==
    /\ pc = "idle"
    /\ nodes[Tip].round >= LastRound
    /\ pc' = "complete"
    /\ UNCHANGED <<nodes, game, last, mutations, unit>>

NextRounds ==
    \/ \E action \in TurnCommands(nodes[Tip]), test_mode \in BOOLEAN :
           RoundsCall(action, test_mode)
    \/ RoundsKeep
    \/ Discard
    \/ RoundsComplete

SpecRounds == InitRounds /\ [][NextRounds]_vars

\* C34: in a single-player game from the initial state, round 0 ends after
\* exactly 1 successful card-play and each of rounds 1 to 7 after exactly 2: the
\* round is 0 when the card-play count c is 0 and 1 + (c - 1) div 2 otherwise (a
\* failed command counts for nothing), and the terminal round 8 is reached
\* after exactly 15 successful card-plays.
C34_RoundSchedule ==
    /\ nodes[Tip].round = IF nodes[Tip].card_play = 0 THEN 0
                          ELSE 1 + ((nodes[Tip].card_play - 1) \div 2)
    /\ (pc = "returned" /\ last.r = "") =>
           /\ last.work.card_play = nodes[Tip].card_play + 1
           /\ last.work.round = 1 + ((last.work.card_play - 1) \div 2)
    /\ (pc # "idle" /\ pc # "complete" /\ last.r # "") => Turn(last.work) = Turn(nodes[Tip])
    /\ nodes[Tip].round >= LastRound <=> nodes[Tip].card_play >= 15
    /\ pc = "complete" => (nodes[Tip].round = LastRound /\ nodes[Tip].card_play = 15)

\* C34 witness: the loop ended at round 8 with 15 card-plays counted
C34_Witness ==
    /\ pc = "complete"
    /\ nodes[Tip].round = 8
    /\ nodes[Tip].card_play = 15
    /\ Len(nodes[Tip].played_links) > 0

\* State s is of the canal age and holds no tile restricted to the rail age
CanalOnly(s) ==
    /\ s.age = "canal"
    /\ \A t \in DOMAIN s.played_industries :
           industry_dict[s.played_industries[t].name].age_restriction # "rail"

\* C35: no command changes the age: every state held, and every working copy,
\* is of the canal age; a successful link costs the 3 of the canal age and no
\* resource (the costs of the rail age are never charged); no tile restricted
\* to the rail age is ever successfully built; and a tile just built that sold
\* nothing holds its production with the beer production of the canal age.
C35_AlwaysCanal ==
    /\ \A n \in DOMAIN nodes : CanalOnly(nodes[n])
    /\ pc # "idle" => last.work.age = "canal"
    /\ (pc # "idle" /\ last.r = "") => CanalOnly(last.work)
    /\ (Applied("network") /\ last.r = "") =>
           /\ ActivePlayer(last.work).money = ActivePlayer(Parent).money - 3
           /\ last.spends = <<>>
    /\ (Applied("network") /\ last.r # "") =>
           ActivePlayer(last.work).money = ActivePlayer(Parent).money - 3
    /\ (Applied("build") /\ last.r = ""
        /\ industry_dict[last.action.arguments[1].tile].industry \notin {"Coal", "Iron"}) =>
           last.work.played_industries[Len(last.work.played_industries)].resource_remaining
               = industry_dict[last.action.arguments[1].tile].beer_production_canal

\* C35 witness: Beer0 (1 beer in the canal age, 2 in the rail age) was built in
\* round 0 and kept; in round 1 the state is of the canal age, Beer0 holds 1,
\* and a link was placed for 3.
C35_Witness ==
    /\ pc = "returned"
    /\ last.r = ""
    /\ last.action.main_action = "network"
    /\ Parent.round = 1
    /\ Parent.age = "canal"
    /\ Len(Parent.played_industries) = 1
    /\ Parent.played_industries[1].name = "Beer0"
    /\ Parent.played_industries[1].resource_remaining = 1
    /\ industry_dict["Beer0"].beer_production_rail = 2
    /\ last.work.age = "canal"
    /\ ActivePlayer(last.work).money = ActivePlayer(Parent).money - 3

====
